---- MODULE Spec2Model ----
(***************************************************************************)
(* Model of the identifier-allocation and write-back caching subsystem of  *)
(* joshdurbin/url-shortener:                                               *)
(*   - CounterCache  (package internal/shortener): per-key counters        *)
(*     with jump-ahead allocation, asynchronous write-back                 *)
(*     through a bounded channel served by one worker, Sync and Close;     *)
(*   - memory.Cache  (internal/cache/memory): entry cache with dirty       *)
(*     tracking and a background sync loop.                                *)
(* Every goroutine of the code is a process of the model; a critical       *)
(* section under a mutex is one atomic action.                             *)
(***************************************************************************)
EXTENDS Integers, Sequences, FiniteSets, Bags, TLC

\* ------------------------------------------------------------------------
\* Bounds of the model
\* ------------------------------------------------------------------------
\* largest ceiling a counter may reach in the exploration of one instance
MaxVal == 2
\* largest ceiling a counter may reach in the exploration of restarts
MaxCrashVal == 4
\* asyncWriteback goroutines that may be pending at once
MaxGo == 2
\* capacity of writebackCh in the exploration (the code's channel holds 100)
QueueCap == 1
\* process restarts (crash or restart after Close)
MaxRestarts == 1

\* counter keys, jump-ahead steps and SetCounter arguments that are explored
Keys == {"k", "j"}
Steps == {1, 2}
SetValues == {0, 1}

\* the scenario of TestCounterCache: step 10 on one key, and the number of
\* calls explored in it
ScenarioStep == 10
ScenarioCalls == 15
ScenarioKey == "k"

VARIABLES
    jumpAhead,      \* CounterCache.jumpAhead
    counters,       \* CounterCache.counters: map key -> cacheEntry
    db,             \* the counters table: map key -> value
    goroutines,     \* bag of spawned asyncWriteback(key, value) goroutines
    writebackCh,    \* CounterCache.writebackCh, a FIFO of requests
    stopCh,         \* TRUE when CounterCache.stopCh is closed
    worker,         \* writebackWorker: [pc, req]
    sync,           \* running Sync calls: caller -> [pc, snap, key]
    closePc,        \* position of the Close call
    issued,         \* history: values returned since the key's entry was created
    base,           \* history: value read from the store when a key was loaded
    prevMax,        \* history: largest value returned by an earlier instance
    setValue,       \* history: the value of the last SetCounter of this
                    \*          instance, per overridden key
    setEver,        \* history: TRUE once SetCounter was used by any instance
    quiet,          \* history: progress of an undisturbed Sync-then-Close
    restarts,       \* history: number of restarts so far
    reqLog,         \* history (scenario): persist requests in issue order
    writeLog,       \* history (scenario): durable writes in execution order
    data,           \* memory.Cache.data: map short code -> CacheEntry
    running,        \* memory.Cache.running
    stopChan,       \* memory.Cache.stopChan: identity of the current channel
    loops,          \* backgroundSync goroutines, in start order
    ctxDone,        \* TRUE once the context given to StartBackgroundSync is done
    clock,          \* time.Now()
    delivered,      \* history: <<code, UsageCount, LastUsedAt>> given to a
                    \*          syncFunc call that returned nil, since the
                    \*          code's entry was last stored or deleted
    updated,        \* history: codes whose entry carries an update
    stopped,        \* history: loops that were running when Stop was called
    syncFailed,     \* history: TRUE once a syncFunc call returned an error
    held,           \* the CacheEntry object a caller holds: the argument it
                    \*   gave to Set or the result Get gave it, and whether
                    \*   it is the very object the cache stores
    incs,           \* history: IncrementUsage calls per code since the code
                    \*          was last stored or deleted
    genIn,          \* the counter last given to CounterGenerator.encodeCounter
    genOut,         \* the short code it returned
    genN,           \* history: number of short codes generated
    genDec,         \* the number fromBase62 read back from genOut
    genOther,       \* a second counter and its short code, for comparison
    genMid,         \* the word that entered step 5 of obfuscateValue
    errLog,         \* history: the errors returned to callers, in order
    synced,         \* history: per Sync call, own: the keys it has written
                    \*          and marked clean, with their ceilings then;
                    \*          other: the keys the other Sync call marked
                    \*          clean meanwhile
    atClose,        \* history: queued: requests that were in the queue
                    \*          when Close signalled the stop; left: those
                    \*          of them the worker has not received yet;
                    \*          issued: values issued per key until then
    lastAct,        \* history: the operation step taken last
    lastArg,        \* history: the code given to the last memory.Cache call
    lastPre,        \* history: what Get gave for that code before the call
    lastRet,        \* history: what the call returned
    mutex,          \* memory.Cache.mutex: [writer, readers]
    repo,           \* the urls table: short code -> [OriginalURL, UsageCount]
    calls,          \* GetOriginalURL calls under way: caller -> [pc, code,
                    \*   usage], usage being the count read from the table
    served,         \* history: GetOriginalURL calls that returned the URL,
                    \*          per short code
    shutPc,         \* runServer: how far its deferred calls have run
    repoClosed,     \* TRUE once Repository.Close() has closed the database
    closers         \* CounterCache.Close calls: caller -> position

ccVars == <<jumpAhead, counters, db, goroutines, writebackCh, stopCh, worker,
            sync, closePc>>
ccHist == <<issued, base, prevMax, setValue, setEver, quiet, restarts>>
logVars == <<reqLog, writeLog>>
ecVars == <<data, running, stopChan, loops, ctxDone, clock>>
ecHist == <<delivered, updated, stopped, syncFailed>>
callerVars == <<held, incs>>
genVars == <<genIn, genOut, genN, genDec, genOther, genMid>>
failVars == <<errLog, synced, atClose, lastAct, lastArg, lastPre,
             lastRet>>
svcVars == <<mutex, repo, calls, served, shutPc, repoClosed, closers>>
vars == <<ccVars, ccHist, logVars, ecVars, ecHist, callerVars, genVars,
          failVars, svcVars>>

\* ------------------------------------------------------------------------
\* Helpers
\* ------------------------------------------------------------------------
NoReq == [key |-> "", value |-> -1]
\* no entry object held by a caller
NoHeld == [code |-> "", entry |-> <<>>, alias |-> FALSE]
Req(k, v) == [key |-> k, value |-> v]
EmptyMap == [x \in {} |-> 0]
MapPut(m, k, v) == [x \in DOMAIN m \cup {k} |-> IF x = k THEN v ELSE m[x]]
MapDel(m, k) == [x \in DOMAIN m \ {k} |-> m[x]]
Max(a, b) == IF a >= b THEN a ELSE b

RECURSIVE SeqMax(_)
SeqMax(s) == IF s = <<>> THEN 0 ELSE Max(Head(s), SeqMax(Tail(s)))

Syncers == {"client", "close"}
IdleSync == [pc |-> "idle", snap |-> EmptyMap, key |-> ""]
NoneSynced == [own |-> EmptyMap, other |-> {}]

\* ------------------------------------------------------------------------
\* The durable counter store (sqlc GetCounter / SetCounter)
\* ------------------------------------------------------------------------
\* GetCounter: the stored value, sql.ErrNoRows (treated as 0) when absent
DbGetCounter(k) == IF k \in DOMAIN db THEN db[k] ELSE 0
\* variant: the row is written two steps above the value given
DbSetCounter_Ahead(k, v) == MapPut(db, k, v + 2 * jumpAhead)

\* SetCounter: upsert of the row
DbSetCounter(k, v) == MapPut(db, k, v)

\* ------------------------------------------------------------------------
\* CounterCache: pure parts of GetNextCounter and SetCounter
\* ------------------------------------------------------------------------
\* variant: the first ceiling is the stored value itself, no jump-ahead
LoadEntry_NoJumpAhead(dbValue) ==
    [current |-> dbValue, allocated |-> dbValue, dirty |-> TRUE]

\* entry built on first use of a key from the stored value
LoadEntry(dbValue) ==
    [current |-> dbValue, allocated |-> dbValue + jumpAhead, dirty |-> TRUE]

\* "Check if we need to allocate more"
NeedsAllocation(e) == e.current >= e.allocated

\* variant: current continues from the new ceiling instead of the old one
Allocate_SkipBlock(e) ==
    [current |-> e.allocated + jumpAhead, allocated |-> e.allocated + jumpAhead,
     dirty |-> TRUE]

\* variant: the new ceiling is computed but not stored in the entry
Allocate_NoBump(e) ==
    [current |-> e.allocated, allocated |-> e.allocated, dirty |-> TRUE]

\* the jump-ahead bump: new ceiling, current continues from the old ceiling
Allocate(e) ==
    [current |-> e.allocated, allocated |-> e.allocated + jumpAhead,
     dirty |-> TRUE]

\* entry.current++
Increment(e) == [e EXCEPT !.current = e.current + 1]

\* variant: SetCounter without the jump-ahead
SetEntry_NoJumpAhead(value) ==
    [current |-> value, allocated |-> value, dirty |-> TRUE]

\* the entry SetCounter installs
SetEntry(value) ==
    [current |-> value, allocated |-> value + jumpAhead, dirty |-> TRUE]

\* entry of key k after the lookup/initialisation part of GetNextCounter
EntryAfterLoad(k) ==
    IF k \in DOMAIN counters THEN counters[k] ELSE LoadEntry(DbGetCounter(k))

\* entry of key k after the allocation check of GetNextCounter
EntryAfterAllocate(k) ==
    IF NeedsAllocation(EntryAfterLoad(k)) THEN Allocate(EntryAfterLoad(k))
    ELSE EntryAfterLoad(k)

\* variant: the map is replaced by one that holds only the new entry
StoreEntry_Wipe(k, e) == [x \in {k} |-> e]

\* c.counters[key] = entry
StoreEntry(k, e) == MapPut(counters, k, e)

\* the asyncWriteback goroutines one GetNextCounter(k) call starts, in order
SpawnedBy(k) ==
    (IF k \in DOMAIN counters THEN <<>>
     ELSE <<Req(k, EntryAfterLoad(k).allocated)>>)
    \o (IF NeedsAllocation(EntryAfterLoad(k))
        THEN <<Req(k, EntryAfterAllocate(k).allocated)>> ELSE <<>>)

RECURSIVE SeqToBag(_)
SeqToBag(s) ==
    IF s = <<>> THEN EmptyBag ELSE SetToBag({Head(s)}) (+) SeqToBag(Tail(s))

\* ------------------------------------------------------------------------
\* CounterCache operations
\* ------------------------------------------------------------------------
\* GetNextCounter(ctx, key): one critical section under c.mu
GetNextCounter(k) ==
    /\ counters' = StoreEntry(k, Increment(EntryAfterAllocate(k)))
    /\ goroutines' = goroutines (+) SeqToBag(SpawnedBy(k))
    /\ issued' = [issued EXCEPT
                    ![k] = Append(@, Increment(EntryAfterAllocate(k)).current)]
    /\ base' = IF k \in DOMAIN counters THEN base
               ELSE [base EXCEPT ![k] = DbGetCounter(k)]
    /\ quiet' = "none"
    /\ UNCHANGED <<jumpAhead, db, writebackCh, stopCh, worker, sync, closePc,
                   prevMax, setValue, setEver, restarts>>

\* SetCounter(ctx, key, value): one critical section under c.mu
SetCounter(k, value) ==
    /\ counters' = StoreEntry(k, SetEntry(value))
    /\ goroutines' = goroutines (+) SetToBag({Req(k, SetEntry(value).allocated)})
    /\ setValue' = MapPut(setValue, k, value)
    /\ setEver' = TRUE
    /\ quiet' = "none"
    /\ issued' = [issued EXCEPT ![k] = <<>>]
    /\ UNCHANGED <<jumpAhead, db, writebackCh, stopCh, worker, sync, closePc,
                   base, prevMax, restarts>>

\* asyncWriteback(key, value): the select of one spawned goroutine.
\* A send case that can proceed and a closed stopCh are chosen between at
\* random; default runs only when neither is ready.
AsyncSend(g) ==
    /\ BagIn(g, goroutines)
    /\ Len(writebackCh) < QueueCap
    /\ writebackCh' = Append(writebackCh, g)
    /\ goroutines' = goroutines (-) SetToBag({g})
    /\ UNCHANGED <<jumpAhead, counters, db, stopCh, worker, sync, closePc>>
    /\ UNCHANGED ccHist

AsyncStopped(g) ==
    /\ BagIn(g, goroutines)
    /\ stopCh
    /\ goroutines' = goroutines (-) SetToBag({g})
    /\ UNCHANGED <<jumpAhead, counters, db, writebackCh, stopCh, worker, sync,
                   closePc>>
    /\ UNCHANGED ccHist

\* variant: a full queue gives up its oldest request for the new one
AsyncDrop_Evicts(g) ==
    /\ BagIn(g, goroutines)
    /\ Len(writebackCh) >= QueueCap
    /\ ~stopCh
    /\ writebackCh' = Append(Tail(writebackCh), g)
    /\ goroutines' = goroutines (-) SetToBag({g})
    /\ UNCHANGED <<jumpAhead, counters, db, stopCh, worker, sync, closePc>>
    /\ UNCHANGED ccHist

\* asyncWriteback: the default case, the request is dropped
AsyncDrop(g) ==
    /\ BagIn(g, goroutines)
    /\ Len(writebackCh) >= QueueCap
    /\ ~stopCh
    /\ goroutines' = goroutines (-) SetToBag({g})
    /\ UNCHANGED <<jumpAhead, counters, db, writebackCh, stopCh, worker, sync,
                   closePc>>
    /\ UNCHANGED ccHist

\* writebackWorker: receive a request in the main select or in the drain loop
WorkerReceive ==
    /\ worker.pc \in {"run", "drain"}
    /\ worker.req = NoReq
    /\ writebackCh # <<>>
    /\ worker' = [worker EXCEPT !.req = Head(writebackCh)]
    /\ writebackCh' = Tail(writebackCh)
    /\ UNCHANGED <<jumpAhead, counters, db, goroutines, stopCh, sync, closePc>>
    /\ UNCHANGED ccHist

\* writebackWorker: c.db.SetCounter of the request it holds
WorkerWrite ==
    /\ worker.req # NoReq
    /\ db' = DbSetCounter(worker.req.key, worker.req.value)
    /\ worker' = [worker EXCEPT !.req = NoReq]
    /\ UNCHANGED <<jumpAhead, counters, goroutines, writebackCh, stopCh, sync,
                   closePc>>
    /\ UNCHANGED ccHist

\* writebackWorker: case <-c.stopCh of the main select
WorkerStop ==
    /\ worker.pc = "run"
    /\ worker.req = NoReq
    /\ stopCh
    /\ worker' = [worker EXCEPT !.pc = "drain"]
    /\ UNCHANGED <<jumpAhead, counters, db, goroutines, writebackCh, stopCh,
                   sync, closePc>>
    /\ UNCHANGED ccHist

\* variant: the worker returns on the stop signal without the drain loop
WorkerExit_Early ==
    /\ worker.pc = "drain"
    /\ worker.req = NoReq
    /\ worker' = [worker EXCEPT !.pc = "done"]
    /\ UNCHANGED <<jumpAhead, counters, db, goroutines, writebackCh, stopCh,
                   sync, closePc>>
    /\ UNCHANGED ccHist

\* writebackWorker: default of the drain loop, return and wg.Done
WorkerExit ==
    /\ worker.pc = "drain"
    /\ worker.req = NoReq
    /\ writebackCh = <<>>
    /\ worker' = [worker EXCEPT !.pc = "done"]
    /\ UNCHANGED <<jumpAhead, counters, db, goroutines, writebackCh, stopCh,
                   sync, closePc>>
    /\ UNCHANGED ccHist

\* Sync, first critical section: snapshot of the dirty ceilings
DirtySnapshot ==
    [k \in {x \in DOMAIN counters : counters[x].dirty} |-> counters[k].allocated]

\* state of a Sync call after its snapshot; an empty snapshot returns at once
SyncStarted ==
    IF DOMAIN DirtySnapshot = {} THEN IdleSync
    ELSE [pc |-> "write", snap |-> DirtySnapshot, key |-> ""]

\* Sync called by a client
SyncBegin ==
    /\ sync["client"].pc = "idle"
    /\ sync' = [sync EXCEPT !["client"] = SyncStarted]
    /\ quiet' = IF SyncStarted.pc = "idle" THEN "synced" ELSE "syncing"
    /\ UNCHANGED <<jumpAhead, counters, db, goroutines, writebackCh, stopCh,
                   worker, closePc>>
    /\ UNCHANGED <<issued, base, prevMax, setValue, setEver, restarts>>

\* Sync: c.db.SetCounter for one key of the snapshot (map order is arbitrary)
SyncWrite(s, k) ==
    /\ sync[s].pc = "write"
    /\ k \in DOMAIN sync[s].snap
    /\ db' = DbSetCounter(k, sync[s].snap[k])
    /\ sync' = [sync EXCEPT ![s].pc = "mark", ![s].key = k]
    /\ UNCHANGED <<jumpAhead, counters, goroutines, writebackCh, stopCh,
                   worker, closePc>>
    /\ UNCHANGED ccHist

\* variant: Sync also gives back the part of the block not yet issued
MarkedClean_Trim(e) == [e EXCEPT !.dirty = FALSE, !.allocated = e.current]

\* the dirty flag cleared by Sync after a successful write
MarkedClean(e) == [e EXCEPT !.dirty = FALSE]

\* Sync: "Mark as clean" critical section, then the next key or return nil
SyncMark(s) ==
    /\ sync[s].pc = "mark"
    /\ counters' = IF sync[s].key \in DOMAIN counters
                   THEN [counters EXCEPT ![sync[s].key] = MarkedClean(@)]
                   ELSE counters
    /\ sync' = [sync EXCEPT
                  ![s] = IF DOMAIN sync[s].snap = {sync[s].key} THEN IdleSync
                         ELSE [pc |-> "write",
                               snap |-> MapDel(sync[s].snap, sync[s].key),
                               key |-> ""]]
    /\ closePc' = IF s = "close" /\ DOMAIN sync[s].snap = {sync[s].key}
                  THEN "done" ELSE closePc
    /\ quiet' = IF DOMAIN sync[s].snap # {sync[s].key} THEN quiet
                ELSE IF s = "client" /\ quiet = "syncing" THEN "synced"
                ELSE IF s = "close" /\ quiet = "closing" THEN "closed"
                ELSE quiet
    /\ UNCHANGED <<jumpAhead, db, goroutines, writebackCh, stopCh, worker>>
    /\ UNCHANGED <<issued, base, prevMax, setValue, setEver, restarts>>

\* Close: the select on stopCh; close(c.stopCh) unless already closed
CloseBegin ==
    /\ closePc = "idle"
    /\ ~stopCh
    /\ stopCh' = TRUE
    /\ closePc' = "wait"
    /\ quiet' = IF quiet = "synced" THEN "closing" ELSE "none"
    /\ UNCHANGED <<jumpAhead, counters, db, goroutines, writebackCh, worker,
                   sync>>
    /\ UNCHANGED <<issued, base, prevMax, setValue, setEver, restarts>>

\* Close: c.wg.Wait() returns once the worker is done, then the final Sync
\* takes its snapshot
CloseSync ==
    /\ closePc = "wait"
    /\ worker.pc = "done"
    /\ sync' = [sync EXCEPT !["close"] = SyncStarted]
    /\ closePc' = IF SyncStarted.pc = "idle" THEN "done" ELSE "sync"
    /\ quiet' = IF SyncStarted.pc = "idle" /\ quiet = "closing" THEN "closed"
                ELSE quiet
    /\ UNCHANGED <<jumpAhead, counters, db, goroutines, writebackCh, stopCh,
                   worker>>
    /\ UNCHANGED <<issued, base, prevMax, setValue, setEver, restarts>>

\* The process ends (a crash at any point, or exit after Close) and
\* NewCounterCache builds a fresh instance on the same store: all in-memory
\* state, queued requests and goroutines are gone, the worker is started.
Restart ==
    /\ counters' = EmptyMap
    /\ goroutines' = EmptyBag
    /\ writebackCh' = <<>>
    /\ stopCh' = FALSE
    /\ worker' = [pc |-> "run", req |-> NoReq]
    /\ sync' = [s \in Syncers |-> IdleSync]
    /\ closePc' = "idle"
    /\ issued' = [k \in Keys |-> <<>>]
    /\ base' = [k \in Keys |-> 0]
    /\ prevMax' = [k \in Keys |-> Max(prevMax[k], SeqMax(issued[k]))]
    /\ setValue' = EmptyMap
    /\ quiet' = "none"
    /\ restarts' = restarts + 1
    /\ UNCHANGED <<jumpAhead, db, setEver>>

\* ------------------------------------------------------------------------
\* Specification of the CounterCache
\* ------------------------------------------------------------------------
\* NewCounterCache(db, jumpAhead) on an empty store
InitCounter(steps) ==
    /\ jumpAhead \in steps
    /\ counters = EmptyMap
    /\ db = EmptyMap
    /\ goroutines = EmptyBag
    /\ writebackCh = <<>>
    /\ stopCh = FALSE
    /\ worker = [pc |-> "run", req |-> NoReq]
    /\ sync = [s \in Syncers |-> IdleSync]
    /\ closePc = "idle"
    /\ issued = [k \in Keys |-> <<>>]
    /\ base = [k \in Keys |-> 0]
    /\ prevMax = [k \in Keys |-> 0]
    /\ setValue = EmptyMap
    /\ setEver = FALSE
    /\ quiet = "none"
    /\ restarts = 0
    /\ reqLog = <<>>
    /\ writeLog = <<>>

\* memory.New()
InitCache ==
    /\ data = EmptyMap
    /\ running = FALSE
    /\ stopChan = 0
    /\ loops = <<>>
    /\ ctxDone = FALSE
    /\ clock = 0
    /\ delivered = {}
    /\ updated = {}
    /\ stopped = {}
    /\ syncFailed = FALSE
    /\ held = NoHeld
    /\ incs = EmptyMap

\* NewCounterGenerator: nothing encoded yet
InitGen ==
    /\ genIn = <<>>
    /\ genOut = <<>>
    /\ genN = 0
    /\ genDec = <<>>
    /\ genOther = <<>>
    /\ genMid = <<>>

\* no call has returned an error, no Sync or Close is under way
InitFail ==
    /\ errLog = <<>>
    /\ synced = [s \in Syncers |-> NoneSynced]
    /\ atClose = [queued |-> 0, left |-> 0, issued |-> EmptyMap]
    /\ lastAct = ""
    /\ lastArg = ""
    /\ lastPre = <<>>
    /\ lastRet = <<>>

\* a mutex nobody holds
FreeMutex == [writer |-> FALSE, readers |-> {}]

\* the service around the cache and the counter, before any call
Callers == {"a", "b", "c"}
\* the two owners that close the counter provider
Closers == {"generator", "service"}
IdleCall == [pc |-> "idle", code |-> "", usage |-> 0]

InitSvc(records) ==
    /\ mutex = FreeMutex
    /\ repo = records
    /\ calls = [p \in Callers |-> IdleCall]
    /\ served = EmptyMap
    /\ shutPc = "serving"
    /\ repoClosed = FALSE
    /\ closers = [p \in Closers |-> "idle"]

Init ==
    /\ InitCounter(Steps) /\ InitCache /\ InitGen /\ InitFail
    /\ InitSvc(EmptyMap)

\* a call is explored while the ceiling stays within max and the number of
\* pending goroutines within MaxGo
CanSpawn(n) == BagCardinality(goroutines) + n <= MaxGo

DoGetNextCounter(K, max) ==
    \E k \in K :
        /\ EntryAfterAllocate(k).allocated <= max
        /\ CanSpawn(Len(SpawnedBy(k)))
        /\ GetNextCounter(k)

DoSetCounter(K) ==
    \E k \in K, v \in SetValues :
        /\ CanSpawn(1)
        /\ SetCounter(k, v)

\* with several keys, one override per key is explored
DoSetCounterOnce(K) ==
    \E k \in K \ DOMAIN setValue, v \in SetValues :
        /\ CanSpawn(1)
        /\ SetCounter(k, v)

DoAsyncSend == \E g \in BagToSet(goroutines) : AsyncSend(g)
DoAsyncStopped == \E g \in BagToSet(goroutines) : AsyncStopped(g)
DoAsyncDrop == \E g \in BagToSet(goroutines) : AsyncDrop(g)
DoSyncWrite == \E s \in Syncers, k \in Keys : SyncWrite(s, k)
DoSyncMark == \E s \in Syncers : SyncMark(s)
DoRestart == restarts < MaxRestarts /\ Restart

\* the life of one instance on one key: allocation, override, write-back,
\* Sync and Close
Next ==
    /\ \/ DoGetNextCounter({ScenarioKey}, MaxVal)
       \/ DoSetCounter({ScenarioKey})
       \/ DoAsyncSend
       \/ DoAsyncStopped
       \/ DoAsyncDrop
       \/ WorkerReceive
       \/ WorkerWrite
       \/ WorkerStop
       \/ WorkerExit
       \/ SyncBegin
       \/ DoSyncWrite
       \/ DoSyncMark
       \/ CloseBegin
       \/ CloseSync
    /\ UNCHANGED <<logVars, ecVars, ecHist, callerVars, genVars,
                 failVars, svcVars>>

Spec == Init /\ [][Next]_vars

\* allocation and write-back on one key across crashes and restarts
NextCrash ==
    /\ \/ DoGetNextCounter({ScenarioKey}, MaxCrashVal)
       \/ DoAsyncSend
       \/ DoAsyncDrop
       \/ WorkerReceive
       \/ WorkerWrite
       \/ DoRestart
    /\ UNCHANGED <<logVars, ecVars, ecHist, callerVars, genVars,
                 failVars, svcVars>>

SpecCrash == Init /\ [][NextCrash]_vars

\* one key without overrides: allocation, write-back, Sync and Close, and a
\* fresh instance taking over after a crash or after Close
NextRestart ==
    /\ \/ DoGetNextCounter({ScenarioKey}, MaxCrashVal)
       \/ DoAsyncSend
       \/ DoAsyncStopped
       \/ DoAsyncDrop
       \/ WorkerReceive
       \/ WorkerWrite
       \/ WorkerStop
       \/ WorkerExit
       \/ SyncBegin
       \/ DoSyncWrite
       \/ DoSyncMark
       \/ CloseBegin
       \/ CloseSync
       \/ DoRestart
    /\ UNCHANGED <<logVars, ecVars, ecHist, callerVars, genVars,
                 failVars, svcVars>>

SpecRestart == Init /\ [][NextRestart]_vars

\* one key under every kind of step the constructor takes: NewCounterCache
\* stores jumpAhead as given and the configuration does not validate
\* CounterStep
AcceptedSteps == {-1, 0, 1}
\* GetNextCounter calls explored per step
MaxStepCalls == 3

StepGetNextCounter ==
    /\ Len(issued[ScenarioKey]) < MaxStepCalls
    /\ CanSpawn(Len(SpawnedBy(ScenarioKey)))
    /\ GetNextCounter(ScenarioKey)

NextSteps ==
    /\ \/ StepGetNextCounter
       \/ DoAsyncSend
       \/ DoAsyncDrop
       \/ WorkerReceive
       \/ WorkerWrite
    /\ UNCHANGED <<logVars, ecVars, ecHist, callerVars, genVars,
                 failVars, svcVars>>

InitSteps ==
    /\ InitCounter(AcceptedSteps) /\ InitCache /\ InitGen /\ InitFail
    /\ InitSvc(EmptyMap)

SpecSteps == InitSteps /\ [][NextSteps]_vars

\* several keys side by side: allocation, override and write-back
NextKeys ==
    /\ \/ DoGetNextCounter(Keys, MaxVal)
       \/ DoSetCounterOnce(Keys)
       \/ DoAsyncSend
       \/ DoAsyncDrop
       \/ WorkerReceive
       \/ WorkerWrite
    /\ UNCHANGED <<logVars, ecVars, ecHist, callerVars, genVars,
                 failVars, svcVars>>

SpecKeys == Init /\ [][NextKeys]_vars

\* ------------------------------------------------------------------------
\* memory.Cache: entries, dirty tracking and the background sync loop
\* ------------------------------------------------------------------------
Codes == {"abc", "xyz"}
ScenarioCode == "abc"
URLs == {"u1"}
\* largest UsageCount and clock value in the exploration
MaxUsage == 2
MaxTime == 1
\* StartBackgroundSync calls that start a loop
MaxLoops == 1

\* entries callers pass to Set
SetEntries ==
    [OriginalURL : URLs, UsageCount : {0}, LastUsedAt : {0}, Dirty : BOOLEAN]

\* the copy Get, Set, GetDirtyEntries and LoadData make of an entry
CopyEntry(e) ==
    [OriginalURL |-> e.OriginalURL, UsageCount |-> e.UsageCount,
     LastUsedAt |-> e.LastUsedAt, Dirty |-> e.Dirty]

\* Get(ctx, shortCode): copy of the entry and found flag
Get(code) ==
    IF code \in DOMAIN data THEN <<CopyEntry(data[code]), TRUE>>
    ELSE <<[OriginalURL |-> "", UsageCount |-> 0, LastUsedAt |-> 0,
            Dirty |-> FALSE], FALSE>>

\* variant: every entry is returned, dirty or not
GetDirtyEntries_All == [c \in DOMAIN data |-> CopyEntry(data[c])]

\* GetDirtyEntries(ctx): copies of the entries whose Dirty flag is set
GetDirtyEntries ==
    [c \in {x \in DOMAIN data : data[x].Dirty} |-> CopyEntry(data[c])]

\* variant: the count is not raised
Used_LostCount(e, t) == [e EXCEPT !.LastUsedAt = t, !.Dirty = TRUE]

\* the entry IncrementUsage leaves behind at time t
Used(e, t) ==
    [e EXCEPT !.UsageCount = e.UsageCount + 1, !.LastUsedAt = t,
              !.Dirty = TRUE]

\* variant: MarkClean leaves the flag as it is
Cleaned_Noop(e) == e

\* the entry MarkClean leaves behind
Cleaned(e) == [e EXCEPT !.Dirty = FALSE]

\* Set(ctx, shortCode, entry)
Set(code, e) ==
    /\ data' = MapPut(data, code, CopyEntry(e))
    /\ updated' = IF e.Dirty THEN updated \cup {code} ELSE updated \ {code}
    /\ delivered' = {d \in delivered : d[1] # code}
    /\ UNCHANGED <<running, stopChan, loops, ctxDone, clock, stopped,
                   syncFailed>>

\* variant: an entry with unsynced changes is kept
Delete_KeepsDirty(code) ==
    /\ data' = IF code \in DOMAIN data /\ data[code].Dirty THEN data
               ELSE MapDel(data, code)
    /\ updated' = updated \ {code}
    /\ delivered' = {d \in delivered : d[1] # code}
    /\ UNCHANGED <<running, stopChan, loops, ctxDone, clock, stopped,
                   syncFailed>>

\* Delete(ctx, shortCode)
Delete(code) ==
    /\ data' = MapDel(data, code)
    /\ updated' = updated \ {code}
    /\ delivered' = {d \in delivered : d[1] # code}
    /\ UNCHANGED <<running, stopChan, loops, ctxDone, clock, stopped,
                   syncFailed>>

\* variant: an entry is created for a code that is not in the cache
IncrementUsage_Creates(code, t) ==
    /\ data' = IF code \in DOMAIN data
               THEN [data EXCEPT ![code] = Used(@, t)]
               ELSE MapPut(data, code,
                           [OriginalURL |-> "", UsageCount |-> 1,
                            LastUsedAt |-> t, Dirty |-> TRUE])
    /\ updated' = updated \cup {code}
    /\ clock' = t
    /\ UNCHANGED <<running, stopChan, loops, ctxDone, delivered, stopped,
                   syncFailed>>

\* IncrementUsage(ctx, shortCode) at time t
IncrementUsage(code, t) ==
    /\ data' = IF code \in DOMAIN data
               THEN [data EXCEPT ![code] = Used(@, t)] ELSE data
    /\ updated' = IF code \in DOMAIN data THEN updated \cup {code}
                  ELSE updated
    /\ clock' = t
    /\ UNCHANGED <<running, stopChan, loops, ctxDone, delivered, stopped,
                   syncFailed>>

LoopIds == 1..Len(loops)

\* a backgroundSync goroutine that has not run yet
NewLoop ==
    [pc |-> "start", chan |-> -1, batch |-> EmptyMap, todo |-> {},
     final |-> FALSE, didFinal |-> FALSE]

\* variant: a goroutine is started on every call
StartBackgroundSync_Always ==
    /\ running' = TRUE
    /\ loops' = Append(loops, NewLoop)
    /\ UNCHANGED <<data, stopChan, ctxDone, clock>>
    /\ UNCHANGED ecHist

\* StartBackgroundSync(ctx, interval, syncFunc)
StartBackgroundSync ==
    /\ running' = TRUE
    /\ loops' = IF running THEN loops ELSE Append(loops, NewLoop)
    /\ UNCHANGED <<data, stopChan, ctxDone, clock>>
    /\ UNCHANGED ecHist

\* StopBackgroundSync(), also Close(): close(c.stopChan) and a new channel.
\* Channel n is closed exactly when n < stopChan.
StopBackgroundSync ==
    /\ running' = FALSE
    /\ stopChan' = IF running THEN stopChan + 1 ELSE stopChan
    /\ stopped' = IF running THEN stopped \cup {Len(loops)} ELSE stopped
    /\ UNCHANGED <<data, loops, ctxDone, clock, delivered, updated,
                   syncFailed>>

ChanClosed(n) == n >= 0 /\ n < stopChan

\* cancellation or deadline of the context passed to StartBackgroundSync
CancelContext ==
    /\ ~ctxDone
    /\ ctxDone' = TRUE
    /\ UNCHANGED <<data, running, stopChan, loops, clock>>
    /\ UNCHANGED ecHist

\* backgroundSync: "stopChan := c.stopChan" under the read lock
LoopCapture(i) ==
    /\ i \in LoopIds
    /\ loops[i].pc = "start"
    /\ loops' = [loops EXCEPT ![i].pc = "select", ![i].chan = stopChan]
    /\ UNCHANGED <<data, running, stopChan, ctxDone, clock>>
    /\ UNCHANGED ecHist

\* syncToDatabase up to the call of syncFunc: snapshot of the dirty entries,
\* return at once when there are none
PassStarted(l, final) ==
    IF DOMAIN GetDirtyEntries = {}
    THEN [l EXCEPT !.pc = IF final THEN "done" ELSE "select",
                   !.didFinal = l.didFinal \/ final]
    ELSE [l EXCEPT !.pc = "call", !.batch = GetDirtyEntries,
                   !.final = final, !.didFinal = l.didFinal \/ final]

\* the loop after a pass ends
PassEnded(l) ==
    [l EXCEPT !.pc = IF l.final THEN "done" ELSE "select",
              !.batch = EmptyMap, !.todo = {}, !.final = FALSE]

\* backgroundSync: case <-ticker.C
LoopTick(i) ==
    /\ i \in LoopIds
    /\ loops[i].pc = "select"
    /\ loops' = [loops EXCEPT ![i] = PassStarted(@, FALSE)]
    /\ UNCHANGED <<data, running, stopChan, ctxDone, clock>>
    /\ UNCHANGED ecHist

\* backgroundSync: case <-stopChan, the final sync
LoopStop(i) ==
    /\ i \in LoopIds
    /\ loops[i].pc = "select"
    /\ ChanClosed(loops[i].chan)
    /\ loops' = [loops EXCEPT ![i] = PassStarted(@, TRUE)]
    /\ UNCHANGED <<data, running, stopChan, ctxDone, clock>>
    /\ UNCHANGED ecHist

\* backgroundSync: case <-ctx.Done()
LoopCtxDone(i) ==
    /\ i \in LoopIds
    /\ loops[i].pc = "select"
    /\ ctxDone
    /\ loops' = [loops EXCEPT ![i].pc = "done"]
    /\ UNCHANGED <<data, running, stopChan, ctxDone, clock>>
    /\ UNCHANGED ecHist

\* what a batch hands to syncFunc: code, usage count and timestamp
BatchUpdates(b) ==
    {<<c, b[c].UsageCount, b[c].LastUsedAt>> : c \in DOMAIN b}

\* syncToDatabase: syncFunc(dirtyEntries) returns nil
LoopSyncOk(i) ==
    /\ i \in LoopIds
    /\ loops[i].pc = "call"
    /\ loops' = [loops EXCEPT ![i].pc = "mark",
                              ![i].todo = DOMAIN loops[i].batch]
    /\ delivered' = delivered \cup BatchUpdates(loops[i].batch)
    /\ UNCHANGED <<data, running, stopChan, ctxDone, clock, updated, stopped,
                   syncFailed>>

\* variant: the error of syncFunc is logged and the pass goes on to MarkClean
LoopSyncFail_Marks(i) ==
    /\ i \in LoopIds
    /\ loops[i].pc = "call"
    /\ loops' = [loops EXCEPT ![i].pc = "mark",
                              ![i].todo = DOMAIN loops[i].batch]
    /\ syncFailed' = TRUE
    /\ UNCHANGED <<data, running, stopChan, ctxDone, clock, delivered,
                   updated, stopped>>

\* syncToDatabase: syncFunc(dirtyEntries) returns an error
LoopSyncFail(i) ==
    /\ i \in LoopIds
    /\ loops[i].pc = "call"
    /\ loops' = [loops EXCEPT ![i] = PassEnded(@)]
    /\ syncFailed' = TRUE
    /\ UNCHANGED <<data, running, stopChan, ctxDone, clock, delivered,
                   updated, stopped>>

\* syncToDatabase: MarkClean(ctx, shortCode) for one code of the batch
LoopMarkClean(i, code) ==
    /\ i \in LoopIds
    /\ loops[i].pc = "mark"
    /\ code \in loops[i].todo
    /\ data' = IF code \in DOMAIN data
               THEN [data EXCEPT ![code] = Cleaned(@)] ELSE data
    /\ loops' = [loops EXCEPT
                   ![i] = IF loops[i].todo = {code} THEN PassEnded(@)
                          ELSE [@ EXCEPT !.todo = @ \ {code}]]
    /\ UNCHANGED <<running, stopChan, ctxDone, clock>>
    /\ UNCHANGED ecHist

DoSet(C) == \E c \in C, e \in SetEntries : Set(c, e)
DoDelete(C) == \E c \in C : Delete(c)
DoIncrementUsage(C) ==
    \E c \in C, t \in {clock, clock + 1} :
        /\ t <= MaxTime
        /\ c \in DOMAIN data => data[c].UsageCount < MaxUsage
        /\ IncrementUsage(c, t)
DoStart == (running \/ Len(loops) < MaxLoops) /\ StartBackgroundSync
DoLoopCapture == \E i \in LoopIds : LoopCapture(i)
DoLoopTick == \E i \in LoopIds : LoopTick(i)
DoLoopStop == \E i \in LoopIds : LoopStop(i)
DoLoopCtxDone == \E i \in LoopIds : LoopCtxDone(i)
DoLoopSyncOk == \E i \in LoopIds : LoopSyncOk(i)
DoLoopSyncFail == \E i \in LoopIds : LoopSyncFail(i)
DoLoopMarkClean == \E i \in LoopIds, c \in Codes : LoopMarkClean(i, c)

\* the steps of the backgroundSync goroutines
LoopStep ==
    \/ DoLoopCapture
    \/ DoLoopTick
    \/ DoLoopStop
    \/ DoLoopCtxDone
    \/ DoLoopSyncOk
    \/ DoLoopSyncFail
    \/ DoLoopMarkClean

\* one entry under the callers' operations and the background sync
NextCache ==
    /\ \/ DoSet({ScenarioCode})
       \/ DoDelete({ScenarioCode})
       \/ DoIncrementUsage({ScenarioCode})
       \/ DoStart
       \/ StopBackgroundSync
       \/ CancelContext
       \/ DoLoopCapture
       \/ DoLoopTick
       \/ DoLoopStop
       \/ DoLoopCtxDone
       \/ DoLoopSyncOk
       \/ DoLoopSyncFail
       \/ DoLoopMarkClean
    /\ UNCHANGED <<ccVars, ccHist, logVars, callerVars, genVars,
                 failVars, svcVars>>

InitCacheOnly ==
    /\ InitCounter({1}) /\ InitCache /\ InitGen /\ InitFail
    /\ InitSvc(EmptyMap)

SpecCache == InitCacheOnly /\ [][NextCache]_vars

\* ------------------------------------------------------------------------
\* The scenario of TestCounterCache: step 10, empty store, one key; the
\* persist requests and the durable writes are recorded in order
\* ------------------------------------------------------------------------
InitScenario ==
    /\ InitCounter({ScenarioStep}) /\ InitCache /\ InitGen /\ InitFail
    /\ InitSvc(EmptyMap)

ScenarioGetNextCounter ==
    /\ Len(issued[ScenarioKey]) < ScenarioCalls
    /\ GetNextCounter(ScenarioKey)
    /\ reqLog' = reqLog \o SpawnedBy(ScenarioKey)
    /\ UNCHANGED writeLog

ScenarioWorkerWrite ==
    /\ WorkerWrite
    /\ writeLog' = Append(writeLog, worker.req)
    /\ UNCHANGED reqLog

NextScenario ==
    /\ \/ ScenarioGetNextCounter
       \/ DoAsyncSend /\ UNCHANGED logVars
       \/ DoAsyncDrop /\ UNCHANGED logVars
       \/ WorkerReceive /\ UNCHANGED logVars
       \/ ScenarioWorkerWrite
    /\ UNCHANGED <<ecVars, ecHist, callerVars, genVars,
                 failVars, svcVars>>

SpecScenario == InitScenario /\ [][NextScenario]_vars

\* the background sync under fair scheduling of its goroutines: a runnable
\* goroutine eventually runs, and a select whose stop case is ready again
\* and again eventually takes it
CounterIdle == UNCHANGED <<ccVars, ccHist, logVars, callerVars, genVars,
                 failVars, svcVars>>

LoopFairness ==
    \A i \in 1..MaxLoops :
        /\ WF_vars(LoopCapture(i) /\ CounterIdle)
        /\ WF_vars(LoopTick(i) /\ CounterIdle)
        /\ SF_vars(LoopStop(i) /\ CounterIdle)
        /\ WF_vars((LoopSyncOk(i) \/ LoopSyncFail(i)) /\ CounterIdle)
        /\ WF_vars((\E c \in Codes : LoopMarkClean(i, c)) /\ CounterIdle)

SpecCacheFair == SpecCache /\ LoopFairness

\* the scenario of TestCache_BackgroundSync: an entry is stored once and
\* used, the background sync runs with a syncFunc that never fails
DoSetNew(C) == \E c \in C \ DOMAIN data, e \in SetEntries : Set(c, e)

NextSync ==
    /\ \/ DoSetNew({ScenarioCode})
       \/ DoIncrementUsage({ScenarioCode})
       \/ DoStart
       \/ StopBackgroundSync
       \/ CancelContext
       \/ DoLoopCapture
       \/ DoLoopTick
       \/ DoLoopStop
       \/ DoLoopCtxDone
       \/ DoLoopSyncOk
       \/ DoLoopMarkClean
    /\ UNCHANGED <<ccVars, ccHist, logVars, callerVars, genVars,
                 failVars, svcVars>>

SpecSyncFair == InitCacheOnly /\ [][NextSync]_vars /\ LoopFairness

\* ------------------------------------------------------------------------
\* memory.Cache: LoadData
\* ------------------------------------------------------------------------
LoadURLs == {"u1", "u2"}

\* entries of the maps callers pass to LoadData
LoadEntries ==
    [OriginalURL : LoadURLs, UsageCount : {0, 1}, LastUsedAt : {0},
     Dirty : BOOLEAN]

LoadMaps == UNION {[D -> LoadEntries] : D \in SUBSET Codes}

\* variant: every loaded entry is stored with its Dirty flag cleared
Loaded_Clean(m) == [c \in DOMAIN m |-> [CopyEntry(m[c]) EXCEPT !.Dirty = FALSE]]

\* variant: the old map is kept and the loaded entries are added to it
Loaded_Merged(m) ==
    [c \in DOMAIN m \cup DOMAIN data |->
        IF c \in DOMAIN m THEN CopyEntry(m[c]) ELSE data[c]]

\* the map LoadData builds: a fresh map with a copy of every entry of m
Loaded(m) == [c \in DOMAIN m |-> CopyEntry(m[c])]

\* LoadData(ctx, data)
LoadData(m) ==
    /\ data' = Loaded(m)
    /\ updated' = {c \in DOMAIN m : m[c].Dirty}
    /\ delivered' = {}
    /\ UNCHANGED <<running, stopChan, loops, ctxDone, clock, stopped,
                   syncFailed>>

DoLoadData == \E m \in LoadMaps : LoadData(m)

\* two codes under Set, Delete, IncrementUsage and LoadData
NextLoad ==
    /\ \/ DoSet(Codes)
       \/ DoDelete(Codes)
       \/ DoIncrementUsage(Codes)
       \/ DoLoadData
    /\ UNCHANGED <<ccVars, ccHist, logVars, callerVars, genVars,
                 failVars, svcVars>>

SpecLoad == InitCacheOnly /\ [][NextLoad]_vars

\* ------------------------------------------------------------------------
\* memory.Cache seen by its callers: the entry objects that cross Get and
\* Set, and the callers' count of IncrementUsage calls
\* ------------------------------------------------------------------------
\* variant: Set stores the caller's pointer
SetStoresCopy_Shared == FALSE

\* Set stores a newly allocated CacheEntry filled from the argument
SetStoresCopy == TRUE

\* Get returns a newly allocated CacheEntry filled from the stored one
GetReturnsCopy == TRUE

\* IncrementUsage calls counted for a code
Calls(c) == IF c \in DOMAIN incs THEN incs[c] ELSE 0

\* the object the caller holds is no longer the one stored under code c
Unshared(c) == IF held.code = c THEN [held EXCEPT !.alias = FALSE] ELSE held

\* a caller calls Set(c, e) and keeps e
CallSet(c, e) ==
    /\ Set(c, e)
    /\ held' = [code |-> c, entry |-> e, alias |-> ~SetStoresCopy]
    /\ incs' = MapPut(incs, c, 0)

\* a caller calls Get(c) and keeps the result
CallGet(c) ==
    /\ held' = IF Get(c)[2]
               THEN [code |-> c, entry |-> Get(c)[1],
                     alias |-> ~GetReturnsCopy]
               ELSE NoHeld
    /\ UNCHANGED <<ecVars, ecHist, incs>>

\* the caller assigns to the fields of the object it holds
CallerMutate(e2) ==
    /\ held.code # ""
    /\ e2 # held.entry
    /\ held' = [held EXCEPT !.entry = e2]
    /\ data' = IF held.alias /\ held.code \in DOMAIN data
               THEN [data EXCEPT ![held.code] = e2] ELSE data
    /\ UNCHANGED <<running, stopChan, loops, ctxDone, clock, incs>>
    /\ UNCHANGED ecHist

\* a caller calls Delete(c)
CallDelete(c) ==
    /\ Delete(c)
    /\ held' = Unshared(c)
    /\ incs' = MapPut(incs, c, 0)

\* a caller calls IncrementUsage(c) at time t
CallIncrementUsage(c, t) ==
    /\ IncrementUsage(c, t)
    /\ incs' = MapPut(incs, c, Calls(c) + 1)
    /\ held' = IF held.alias /\ held.code = c /\ c \in DOMAIN data
               THEN [held EXCEPT !.entry = data'[c]] ELSE held

DoCallSet == \E c \in Codes, e \in SetEntries : CallSet(c, e)
DoCallGet == \E c \in Codes : CallGet(c)
DoCallerMutate == \E e2 \in LoadEntries : CallerMutate(e2)
DoCallDelete == \E c \in Codes : CallDelete(c)
DoCallIncrementUsage ==
    \E c \in Codes, t \in {clock, clock + 1} :
        /\ t <= MaxTime
        /\ Calls(c) < MaxUsage
        /\ CallIncrementUsage(c, t)

\* concurrent callers on two codes; each call is one critical section
NextData ==
    /\ \/ DoCallSet
       \/ DoCallGet
       \/ DoCallerMutate
       \/ DoCallDelete
       \/ DoCallIncrementUsage
    /\ UNCHANGED <<ccVars, ccHist, logVars, genVars, failVars, svcVars>>

SpecData == InitCacheOnly /\ [][NextData]_vars

\* ------------------------------------------------------------------------
\* memory.Cache: the calls of its interface one by one, with what each
\* call was given and what it returned
\* ------------------------------------------------------------------------
\* MarkClean(ctx, shortCode)
MarkClean(code) ==
    /\ data' = IF code \in DOMAIN data
               THEN [data EXCEPT ![code] = Cleaned(@)] ELSE data
    /\ UNCHANGED <<running, stopChan, loops, ctxDone, clock>>
    /\ UNCHANGED ecHist

\* the record of a call: operation, argument, the entry before, the result
Called(op, code, ret) ==
    /\ lastAct' = op
    /\ lastArg' = code
    /\ lastPre' = Get(code)
    /\ lastRet' = ret
    /\ UNCHANGED <<errLog, synced, atClose>>

ApiSet(c, e) == Set(c, e) /\ Called("Set", c, "nil")

ApiGet(c) ==
    /\ UNCHANGED <<ecVars, ecHist>>
    /\ Called("Get", c, Get(c))

ApiDelete(c) == Delete(c) /\ Called("Delete", c, "nil")

ApiIncrementUsage(c, t) ==
    IncrementUsage(c, t) /\ Called("IncrementUsage", c, "nil")

ApiGetDirtyEntries ==
    /\ UNCHANGED <<ecVars, ecHist>>
    /\ Called("GetDirtyEntries", "", <<GetDirtyEntries, "nil">>)

ApiMarkClean(c) == MarkClean(c) /\ Called("MarkClean", c, "nil")

DoApiSet == \E c \in Codes, e \in SetEntries : ApiSet(c, e)
DoApiGet == \E c \in Codes : ApiGet(c)
DoApiDelete == \E c \in Codes : ApiDelete(c)
DoApiIncrementUsage ==
    \E c \in Codes :
        /\ c \in DOMAIN data => data[c].UsageCount < MaxUsage
        /\ ApiIncrementUsage(c, clock)
DoApiMarkClean == \E c \in Codes : ApiMarkClean(c)

\* callers on two codes; each call is one critical section
NextApi ==
    /\ \/ DoApiSet
       \/ DoApiGet
       \/ DoApiDelete
       \/ DoApiIncrementUsage
       \/ ApiGetDirtyEntries
       \/ DoApiMarkClean
    /\ UNCHANGED <<ccVars, ccHist, logVars, callerVars, genVars, svcVars>>

SpecApi == InitCacheOnly /\ [][NextApi]_vars

\* ------------------------------------------------------------------------
\* memory.Cache.mutex: who holds the lock while a sync pass runs.
\* mutex.readers are the loops inside GetDirtyEntries; the callers'
\* operations take and release the lock within one step.
\* ------------------------------------------------------------------------
\* Lock() returns when nobody holds the mutex, RLock() when no writer does
CanLock == ~mutex.writer /\ mutex.readers = {}
CanRLock == ~mutex.writer

\* variant: the read lock is held until syncToDatabase returns
MutexAfterSnapshot_Kept(i) == mutex

\* GetDirtyEntries: the deferred RUnlock runs when it returns, before
\* syncToDatabase calls syncFunc
MutexAfterSnapshot(i) == [mutex EXCEPT !.readers = @ \ {i}]

\* syncToDatabase on a tick: GetDirtyEntries takes the read lock
PassRLock(i) ==
    /\ i \in LoopIds
    /\ loops[i].pc = "select"
    /\ CanRLock
    /\ loops' = [loops EXCEPT ![i].pc = "rlock"]
    /\ mutex' = [mutex EXCEPT !.readers = @ \cup {i}]
    /\ UNCHANGED <<data, running, stopChan, ctxDone, clock>>
    /\ UNCHANGED <<ecHist, failVars, repo, calls, served, shutPc,
                   repoClosed, closers>>

\* GetDirtyEntries copies the dirty entries and returns
PassSnapshot(i) ==
    /\ i \in LoopIds
    /\ loops[i].pc = "rlock"
    /\ loops' = [loops EXCEPT ![i] = PassStarted(@, FALSE)]
    /\ mutex' = MutexAfterSnapshot(i)
    /\ UNCHANGED <<data, running, stopChan, ctxDone, clock>>
    /\ UNCHANGED <<ecHist, failVars, repo, calls, served, shutPc,
                   repoClosed, closers>>

\* a step of the loop that takes no lock, or takes and releases it
PassStep(i) ==
    /\ \/ CanRLock /\ LoopCapture(i)
       \/ LoopSyncOk(i)
       \/ LoopSyncFail(i)
       \/ \E c \in Codes : CanLock /\ LoopMarkClean(i, c)
    /\ UNCHANGED <<svcVars, failVars>>

LockedStart == CanLock /\ DoStart /\ UNCHANGED <<svcVars, failVars>>
LockedSet ==
    /\ CanLock
    /\ \E e \in SetEntries : ApiSet(ScenarioCode, e)
    /\ UNCHANGED svcVars
LockedGet == CanRLock /\ ApiGet(ScenarioCode) /\ UNCHANGED svcVars
LockedDelete == CanLock /\ ApiDelete(ScenarioCode) /\ UNCHANGED svcVars
LockedIncrementUsage ==
    /\ CanLock
    /\ ScenarioCode \in DOMAIN data
          => data[ScenarioCode].UsageCount < MaxUsage
    /\ ApiIncrementUsage(ScenarioCode, clock)
    /\ UNCHANGED svcVars

\* one entry, its callers and the sync loop, with the mutex spelled out
NextLock ==
    /\ \/ LockedStart
       \/ LockedSet
       \/ LockedGet
       \/ LockedDelete
       \/ LockedIncrementUsage
       \/ \E i \in LoopIds : PassRLock(i)
       \/ \E i \in LoopIds : PassSnapshot(i)
       \/ \E i \in LoopIds : PassStep(i)
    /\ UNCHANGED <<ccVars, ccHist, logVars, callerVars, genVars>>

SpecLock == InitCacheOnly /\ [][NextLock]_vars

\* ------------------------------------------------------------------------
\* urlShortener: GetOriginalURL and GetURLInfo over the cache and the urls
\* table. Each cache and repository call is one step of the calling
\* goroutine.
\* ------------------------------------------------------------------------
\* GetOriginalURL calls explored
MaxCalls == 4

\* the urls table of a service built on a store that holds one short URL
StoredRecords ==
    [c \in {ScenarioCode} |-> [OriginalURL |-> "u1", UsageCount |-> 0]]

Served(c) == IF c \in DOMAIN served THEN served[c] ELSE 0
CallsBegun ==
    Cardinality({p \in Callers : calls[p].pc # "idle"})
        + Served(ScenarioCode)

\* GetURLInfo(ctx, shortCode): the usage count it reports, the cached count
\* when the code is cached and the stored one otherwise
GetURLInfo(c) ==
    IF Get(c)[2] THEN Get(c)[1].UsageCount ELSE repo[c].UsageCount

\* GetOriginalURL: "s.cache.Get(ctx, shortCode)" and the branch on exists
SvcCacheGet(p, c) ==
    /\ calls[p].pc = "idle"
    /\ calls' = [calls EXCEPT ![p] = [pc |-> IF Get(c)[2] THEN "hit"
                                             ELSE "miss",
                                      code |-> c, usage |-> 0]]
    /\ UNCHANGED <<ecVars, ecHist, mutex, repo, served, shutPc,
                   repoClosed, closers>>

\* GetOriginalURL, cache hit: IncrementUsage and return of the URL
SvcIncrementUsage(p) ==
    /\ calls[p].pc = "hit"
    /\ IncrementUsage(calls[p].code, clock)
    /\ calls' = [calls EXCEPT ![p] = IdleCall]
    /\ served' = MapPut(served, calls[p].code, Served(calls[p].code) + 1)
    /\ UNCHANGED <<mutex, repo, shutPc, repoClosed, closers>>

\* GetOriginalURL, cache miss: "s.repo.GetURL(ctx, shortCode)", an error
\* return when the code is not stored
SvcRepoGet(p) ==
    /\ calls[p].pc = "miss"
    /\ calls' = [calls EXCEPT
                   ![p] = IF calls[p].code \in DOMAIN repo
                          THEN [@ EXCEPT
                                  !.pc = "set",
                                  !.usage = repo[calls[p].code].UsageCount]
                          ELSE IdleCall]
    /\ UNCHANGED <<ecVars, ecHist, mutex, repo, served, shutPc,
                   repoClosed, closers>>

\* GetOriginalURL, cache miss: the entry built from the record is stored
\* with UsageCount + 1 and the URL is returned
SvcCacheSet(p) ==
    /\ calls[p].pc = "set"
    /\ Set(calls[p].code,
           [OriginalURL |-> repo[calls[p].code].OriginalURL,
            UsageCount |-> calls[p].usage + 1, LastUsedAt |-> clock,
            Dirty |-> TRUE])
    /\ calls' = [calls EXCEPT ![p] = IdleCall]
    /\ served' = MapPut(served, calls[p].code, Served(calls[p].code) + 1)
    /\ UNCHANGED <<mutex, repo, shutPc, repoClosed, closers>>

\* concurrent GetOriginalURL calls on one stored short code
NextGetURL ==
    /\ \/ \E p \in Callers :
             CallsBegun < MaxCalls /\ SvcCacheGet(p, ScenarioCode)
       \/ \E p \in Callers : SvcIncrementUsage(p)
       \/ \E p \in Callers : SvcRepoGet(p)
       \/ \E p \in Callers : SvcCacheSet(p)
    /\ UNCHANGED <<ccVars, ccHist, logVars, callerVars, genVars, failVars>>

InitGetURL ==
    /\ InitCounter({1}) /\ InitCache /\ InitGen /\ InitFail
    /\ InitSvc(StoredRecords)

SpecGetURL == InitGetURL /\ [][NextGetURL]_vars

\* ------------------------------------------------------------------------
\* runServer: the service with its cache sync from start-up to the deferred
\* calls that run when it returns
\* ------------------------------------------------------------------------
\* UpdateUsage for every entry of a batch
RepoAfterSync(b) ==
    [c \in DOMAIN repo |->
        IF c \in DOMAIN b THEN [repo[c] EXCEPT !.UsageCount = b[c].UsageCount]
        ELSE repo[c]]

\* the syncFunc of StartCacheSync: s.repo.UpdateUsage per entry, an error
\* from the first one when the database is closed
SvcSyncFunc(i) ==
    /\ IF repoClosed THEN LoopSyncFail(i) /\ UNCHANGED repo
       ELSE LoopSyncOk(i) /\ repo' = RepoAfterSync(loops[i].batch)
    /\ UNCHANGED <<mutex, calls, served, shutPc, repoClosed,
                   closers>>

\* a step of the backgroundSync goroutine other than the syncFunc call
SvcLoopStep(i) ==
    /\ \/ LoopCapture(i)
       \/ LoopTick(i)
       \/ LoopStop(i)
       \/ LoopCtxDone(i)
       \/ \E c \in Codes : LoopMarkClean(i, c)
    /\ UNCHANGED svcVars

\* deferred: urlShortener.StopCacheSync()
ShutStopCacheSync ==
    /\ shutPc = "serving"
    /\ \A p \in Callers : calls[p].pc = "idle"
    /\ StopBackgroundSync
    /\ shutPc' = "stopped"
    /\ UNCHANGED <<mutex, repo, calls, served, repoClosed, closers>>

\* deferred: cancel() of the start-up context
ShutCancel ==
    /\ shutPc = "stopped"
    /\ shutPc' = "cancelled"
    /\ ctxDone' = TRUE
    /\ UNCHANGED <<data, running, stopChan, loops, clock>>
    /\ UNCHANGED <<ecHist, mutex, repo, calls, served, repoClosed,
                   closers>>

\* deferred: urlShortener.Close(), its s.cache.Close()
ShutCloseCache ==
    /\ shutPc = "cancelled"
    /\ StopBackgroundSync
    /\ shutPc' = "cacheClosed"
    /\ UNCHANGED <<mutex, repo, calls, served, repoClosed, closers>>

\* urlShortener.Close(), its s.repo.Close()
ShutCloseRepo ==
    /\ shutPc = "cacheClosed"
    /\ shutPc' = "closed"
    /\ repoClosed' = TRUE
    /\ UNCHANGED <<ecVars, ecHist, mutex, repo, calls, served,
                   closers>>

\* StartCacheSync during start-up
SvcStartCacheSync ==
    /\ shutPc = "serving"
    /\ DoStart
    /\ UNCHANGED svcVars

\* requests are served until the server is shut down
SvcServe ==
    /\ shutPc = "serving"
    /\ \E p \in Callers :
          \/ CallsBegun < MaxUsage /\ SvcCacheGet(p, ScenarioCode)
          \/ SvcIncrementUsage(p)
          \/ SvcRepoGet(p)
          \/ SvcCacheSet(p)

NextServer ==
    /\ \/ SvcStartCacheSync
       \/ SvcServe
       \/ \E i \in LoopIds : SvcLoopStep(i)
       \/ \E i \in LoopIds : SvcSyncFunc(i)
       \/ ShutStopCacheSync
       \/ ShutCancel
       \/ ShutCloseCache
       \/ ShutCloseRepo
    /\ UNCHANGED <<ccVars, ccHist, logVars, callerVars, genVars, failVars>>

SpecServer == InitGetURL /\ [][NextServer]_vars

\* ------------------------------------------------------------------------
\* CounterCache.Close called by both owners of the provider, each call in
\* its own goroutine or one after the other
\* ------------------------------------------------------------------------
\* Close: the select on c.stopCh, "return nil" when it is closed already
CloseSelect(p) ==
    /\ closers[p] = "idle"
    /\ closers' = [closers EXCEPT ![p] = IF stopCh THEN "returned"
                                         ELSE "default"]
    /\ UNCHANGED <<ccVars, ccHist>>

\* Close: close(c.stopCh) in the default case; closing a closed channel
\* panics
CloseChannel(p) ==
    /\ closers[p] = "default"
    /\ IF stopCh
       THEN /\ closers' = [closers EXCEPT ![p] = "panic"]
            /\ UNCHANGED <<ccVars, ccHist>>
       ELSE /\ closers' = [closers EXCEPT ![p] = "wait"]
            /\ CloseBegin

\* Close: the return of the final Sync
CloseReturn(p) ==
    /\ closers[p] = "wait"
    /\ closePc = "done"
    /\ closers' = [closers EXCEPT ![p] = "returned"]
    /\ UNCHANGED <<ccVars, ccHist>>

NextClose ==
    /\ \/ DoGetNextCounter({ScenarioKey}, MaxVal) /\ UNCHANGED closers
       \/ DoAsyncSend /\ UNCHANGED closers
       \/ DoAsyncStopped /\ UNCHANGED closers
       \/ DoAsyncDrop /\ UNCHANGED closers
       \/ WorkerReceive /\ UNCHANGED closers
       \/ WorkerWrite /\ UNCHANGED closers
       \/ WorkerStop /\ UNCHANGED closers
       \/ WorkerExit /\ UNCHANGED closers
       \/ \E p \in Closers : CloseSelect(p)
       \/ \E p \in Closers : CloseChannel(p)
       \/ CloseSync /\ UNCHANGED closers
       \/ DoSyncWrite /\ UNCHANGED closers
       \/ DoSyncMark /\ UNCHANGED closers
       \/ \E p \in Closers : CloseReturn(p)
    /\ UNCHANGED <<logVars, ecVars, ecHist, callerVars, genVars, failVars,
                   mutex, repo, calls, served, shutPc, repoClosed>>

SpecClose == Init /\ [][NextClose]_vars

\* ------------------------------------------------------------------------
\* CounterGenerator: 64-bit words and the short-code encoder
\* A uint64 is the sequence of its 8 bytes, the least significant first;
\* all arithmetic is modulo 2^64 as on the machine.
\* ------------------------------------------------------------------------
WordBytes == 8
Word == [1..WordBytes -> 0..255]
Zero == [k \in 1..WordBytes |-> 0]
One == [k \in 1..WordBytes |-> IF k = 1 THEN 1 ELSE 0]

\* 2^n for small n
RECURSIVE Pow2(_)
Pow2(n) == IF n = 0 THEN 1 ELSE 2 * Pow2(n - 1)

\* bit j (0 is the least significant) of a byte
BitOf(x, j) == (x \div Pow2(j)) % 2

\* bit n (0..63) of a word
WordBit(w, n) == BitOf(w[(n \div 8) + 1], n % 8)

\* uint64(n) for a small non-negative n
FromNat(n) ==
    [k \in 1..WordBytes |->
        IF k <= 4 THEN (n \div Pow2(8 * (k - 1))) % 256 ELSE 0]

\* x ^ y and x | y on bytes
RECURSIVE XorByte(_, _, _)
XorByte(x, y, j) ==
    IF j < 0 THEN 0
    ELSE ((BitOf(x, j) + BitOf(y, j)) % 2) * Pow2(j) + XorByte(x, y, j - 1)
RECURSIVE OrByte(_, _, _)
OrByte(x, y, j) ==
    IF j < 0 THEN 0
    ELSE (IF BitOf(x, j) + BitOf(y, j) > 0 THEN Pow2(j) ELSE 0)
         + OrByte(x, y, j - 1)

\* a ^ b, a | b, ^a
XorW(a, b) == [k \in 1..WordBytes |-> XorByte(a[k], b[k], 7)]
OrW(a, b) == [k \in 1..WordBytes |-> OrByte(a[k], b[k], 7)]
NotW(a) == [k \in 1..WordBytes |-> 255 - a[k]]

\* byte k (1..8) of a word, 0 outside
ByteAt(a, k) == IF k >= 1 /\ k <= WordBytes THEN a[k] ELSE 0

\* a << n and a >> n for 0 <= n < 64
ShiftLeft(a, n) ==
    [k \in 1..WordBytes |->
        ((ByteAt(a, k - (n \div 8)) * Pow2(n % 8)) % 256)
        + (ByteAt(a, k - (n \div 8) - 1) \div Pow2(8 - (n % 8)))]
ShiftRight(a, n) ==
    [k \in 1..WordBytes |->
        (ByteAt(a, k + (n \div 8)) \div Pow2(n % 8))
        + ((ByteAt(a, k + (n \div 8) + 1) * Pow2(8 - (n % 8))) % 256)]

\* bits.RotateLeft64(a, n)
RotateLeft64(a, n) == OrW(ShiftLeft(a, n), ShiftRight(a, (8 * WordBytes) - n))

\* the exact sum of two words: 9 bytes, the last one is the carry out
RECURSIVE SumFrom(_, _, _, _)
SumFrom(a, b, k, carry) ==
    IF k > WordBytes THEN <<carry>>
    ELSE <<(a[k] + b[k] + carry) % 256>>
         \o SumFrom(a, b, k + 1, (a[k] + b[k] + carry) \div 256)
Sum(a, b) == SumFrom(a, b, 1, 0)

\* a + b as the machine computes it, modulo 2^64
AddW(a, b) == SubSeq(Sum(a, b), 1, WordBytes)

\* a - b modulo 2^64
SubW(a, b) == AddW(a, AddW(NotW(b), One))

\* a >= b, unsigned
GeW(a, b) ==
    LET d == {k \in 1..WordBytes : a[k] # b[k]}
    IN  d = {} \/ LET top == CHOOSE k \in d : \A j \in d : j <= k
                  IN  a[top] > b[top]

\* a * b modulo 2^64: byte columns with carries
RECURSIVE Column(_, _, _, _)
Column(a, b, k, i) ==
    IF i > k THEN 0 ELSE a[i] * b[k + 1 - i] + Column(a, b, k, i + 1)
RECURSIVE MulFrom(_, _, _, _)
MulFrom(a, b, k, carry) ==
    IF k > WordBytes THEN <<>>
    ELSE <<(Column(a, b, k, 1) + carry) % 256>>
         \o MulFrom(a, b, k + 1, (Column(a, b, k, 1) + carry) \div 256)
MulW(a, b) == MulFrom(a, b, 1, 0)

\* r % m for r < 256 * m: the multiples m * 2^j are taken off, largest first
RECURSIVE Reduce(_, _, _)
Reduce(r, m, j) ==
    IF r \notin Word \/ j < 0 THEN r
    ELSE Reduce(IF GeW(r, ShiftLeft(m, j)) THEN SubW(r, ShiftLeft(m, j)) ELSE r,
                m, j - 1)

\* a % m for a modulus below 2^56: long division, byte by byte
RECURSIVE ModFrom(_, _, _, _)
ModFrom(a, m, k, r) ==
    IF r \notin Word \/ k = 0 THEN r
    ELSE ModFrom(a, m, k - 1,
                 Reduce(<<a[k]>> \o SubSeq(r, 1, WordBytes - 1), m, 7))
ModW(a, m) == ModFrom(a, m, WordBytes, Zero)

\* <<a / d, a % d>> for a divisor d below 2^23; the remainder is a number
RECURSIVE DivModFrom(_, _, _, _)
DivModFrom(a, d, k, r) ==
    IF k = 0 THEN <<<<>>, r>>
    ELSE LET low == DivModFrom(a, d, k - 1, (256 * r + a[k]) % d)
         IN  <<Append(low[1], (256 * r + a[k]) \div d), low[2]>>
DivModSmall(a, d) == DivModFrom(a, d, WordBytes, 0)

\* the value of a hexadecimal literal, digits most significant first
HexDigit(h, p) == IF p >= 1 /\ p <= Len(h) THEN h[p] ELSE 0
FromHex(h) ==
    [k \in 1..WordBytes |->
        HexDigit(h, Len(h) - 2 * (k - 1))
        + 16 * HexDigit(h, Len(h) - 2 * (k - 1) - 1)]

\* the value of a decimal literal, digits most significant first
RECURSIVE FromDecimalAcc(_, _)
FromDecimalAcc(ds, acc) ==
    IF acc \notin Word \/ ds = <<>> THEN acc
    ELSE FromDecimalAcc(Tail(ds),
                        AddW(MulW(acc, FromNat(10)), FromNat(Head(ds))))
FromDecimal(ds) == FromDecimalAcc(ds, Zero)

\* base62Chars
base62Chars ==
    <<
      "0", "1", "2", "3", "4", "5", "6", "7", "8", "9", "a", "b", "c",
      "d", "e", "f", "g", "h", "i", "j", "k", "l", "m", "n", "o", "p",
      "q", "r", "s", "t", "u", "v", "w", "x", "y", "z", "A", "B", "C",
      "D", "E", "F", "G", "H", "I", "J", "K", "L", "M", "N", "O", "P",
      "Q", "R", "S", "T", "U", "V", "W", "X", "Y", "Z" >>

\* NewCounterGenerator: multiplier 0x5DEECE66D, salt 0x9E3779B97F4A7C15
multiplier == FromHex(<<5, 13, 14, 14, 12, 14, 6, 6, 13>>)
salt == FromHex(<<9, 14, 3, 7, 7, 9, 11, 9, 7, 15, 4, 10, 7, 12, 1, 5>>)

\* encodeCounter: minVal := uint64(56800235584), maxVal := uint64(3521614606207)
minVal == FromDecimal(<<5, 6, 8, 0, 0, 2, 3, 5, 5, 8, 4>>)
maxVal == FromDecimal(<<3, 5, 2, 1, 6, 1, 4, 6, 0, 6, 2, 0, 7>>)

\* rangeSize := maxVal - minVal + 1
rangeSize == AddW(SubW(maxVal, minVal), One)

\* a byte with its bits in reverse order
RECURSIVE ReverseByte(_, _)
ReverseByte(x, j) ==
    IF j < 0 THEN 0 ELSE BitOf(x, j) * Pow2(7 - j) + ReverseByte(x, j - 1)

\* bits.Reverse32 on the 4 bytes of a uint32
Reverse32(l) == [k \in 1..4 |-> ReverseByte(l[5 - k], 7)]

\* obfuscateValue, step by step
ObfStep1(value) == XorW(value, salt)
ObfStep2(result) == MulW(result, multiplier)
ObfStep3(result) == RotateLeft64(result, 21)
ObfStep4(result) == XorW(result, RotateLeft64(result, 32))
\* lower := uint32(result & 0xFFFFFFFF); upper := uint32(result >> 32);
\* result = (uint64(bits.Reverse32(lower)) << 32) | uint64(upper)
ObfStep5(result) ==
    LET lower == SubSeq(result, 1, 4)
        upper == SubSeq(result, 5, WordBytes)
    IN  upper \o Reverse32(lower)

obfuscateValue(value) ==
    ObfStep5(ObfStep4(ObfStep3(ObfStep2(ObfStep1(value)))))

\* toBase62: digits by repeated num % 62 and num / 62, "0" for zero
RECURSIVE toBase62Loop(_, _)
toBase62Loop(num, result) ==
    IF num = Zero THEN result
    ELSE LET qr == DivModSmall(num, 62)
         IN  toBase62Loop(qr[1], <<base62Chars[qr[2] + 1]>> \o result)
toBase62(num) == IF num = Zero THEN <<"0">> ELSE toBase62Loop(num, <<>>)

\* variant: the transformed value is not reduced to the range
finalValue_Unreduced(transformed) == AddW(transformed, minVal)

\* finalValue := (transformed % rangeSize) + minVal
finalValue(transformed) == AddW(ModW(transformed, rangeSize), minVal)

\* encodeCounter(counter)
encodeCounter(counter) == toBase62(finalValue(obfuscateValue(counter)))

\* number of codes generated in one run
MaxCodes == 24

\* the first identifier of a run: 0, 1, and values around 2^31, 62^6, 2^63
\* and the top of the 64-bit range
StartIds ==
    { Zero, One, FromHex(<<7, 15, 15, 15, 15, 15, 15, 0>>),
      SubW(minVal, FromNat(12)),
      SubW(ShiftLeft(One, 63), FromNat(12)),
      SubW(Zero, FromNat(MaxCodes)) }

\* GenerateShortCodeForID(id)
GenerateShortCodeForID(id) ==
    /\ genIn' = id
    /\ genOut' = encodeCounter(id)
    /\ genN' = genN + 1

\* a run of calls with consecutive identifiers
DoGenerate ==
    /\ genN < MaxCodes
    /\ \E id \in (IF genN = 0 THEN StartIds ELSE {AddW(genIn, One)}) :
            GenerateShortCodeForID(id)

NextGen ==
    /\ DoGenerate
    /\ UNCHANGED <<ccVars, ccHist, logVars, ecVars, ecHist, callerVars,
                   failVars, svcVars, genDec, genOther,
                   genMid>>

SpecGen == InitCacheOnly /\ [][NextGen]_vars

\* ------------------------------------------------------------------------
\* CounterGenerator.fromBase62 and the round trip through toBase62
\* ------------------------------------------------------------------------
\* the ASCII table: '0'..'9' are 48..57, 'A'..'Z' 65..90, 'a'..'z' 97..122
AsciiDigits == <<"0", "1", "2", "3", "4", "5", "6", "7", "8", "9">>
AsciiUpper ==
    <<"A", "B", "C", "D", "E", "F", "G", "H", "I", "J", "K", "L", "M",
      "N", "O", "P", "Q", "R", "S", "T", "U", "V", "W", "X", "Y", "Z">>
AsciiLower ==
    <<"a", "b", "c", "d", "e", "f", "g", "h", "i", "j", "k", "l", "m",
      "n", "o", "p", "q", "r", "s", "t", "u", "v", "w", "x", "y", "z">>
IndexIn(ch, row) == CHOOSE i \in 1..Len(row) : row[i] = ch
InRow(ch, row) == \E i \in 1..Len(row) : row[i] = ch
CodePoint(ch) ==
    IF InRow(ch, AsciiDigits) THEN 47 + IndexIn(ch, AsciiDigits)
    ELSE IF InRow(ch, AsciiUpper) THEN 64 + IndexIn(ch, AsciiUpper)
    ELSE IF InRow(ch, AsciiLower) THEN 96 + IndexIn(ch, AsciiLower)
    ELSE 0

\* variant: letters are valued without the offsets 10 and 36
charValue_NoOffset(char) ==
    IF CodePoint(char) >= 48 /\ CodePoint(char) <= 57
    THEN CodePoint(char) - 48
    ELSE IF CodePoint(char) >= 97 /\ CodePoint(char) <= 122
    THEN CodePoint(char) - 97
    ELSE IF CodePoint(char) >= 65 /\ CodePoint(char) <= 90
    THEN CodePoint(char) - 65
    ELSE 0

\* fromBase62, the value of one character: the if / else if chain
charValue(char) ==
    IF CodePoint(char) >= 48 /\ CodePoint(char) <= 57
    THEN CodePoint(char) - 48
    ELSE IF CodePoint(char) >= 97 /\ CodePoint(char) <= 122
    THEN CodePoint(char) - 97 + 10
    ELSE IF CodePoint(char) >= 65 /\ CodePoint(char) <= 90
    THEN CodePoint(char) - 65 + 36
    ELSE 0

\* fromBase62: result = result*62 + value over the characters, modulo 2^64
RECURSIVE fromBase62Loop(_, _)
fromBase62Loop(str, result) ==
    IF result \notin Word \/ str = <<>> THEN result
    ELSE fromBase62Loop(Tail(str),
                        AddW(MulW(result, FromNat(62)),
                             FromNat(charValue(Head(str)))))
fromBase62(str) == fromBase62Loop(str, Zero)

\* the first number of a run: 0, values below 61 and 62, the test's
\* 123456789, values below 62^7 - 1 and 2^32, and the top of the range
Base62Ids ==
    { Zero, FromNat(50), FromNat(123456789),
      SubW(maxVal, FromNat(12)),
      FromHex(<<15, 15, 15, 15, 15, 15, 15, 0>>),
      SubW(Zero, FromNat(MaxCodes)) }

\* encoded := generator.toBase62(num); decoded := generator.fromBase62(encoded)
Base62Conversion(num) ==
    /\ genIn' = num
    /\ genOut' = toBase62(num)
    /\ genDec' = fromBase62(toBase62(num))
    /\ genN' = genN + 1
    /\ UNCHANGED <<genOther, genMid>>

\* a run of conversions of consecutive numbers
DoBase62Conversion ==
    /\ genN < MaxCodes
    /\ \E num \in (IF genN = 0 THEN Base62Ids ELSE {AddW(genIn, One)}) :
            Base62Conversion(num)

NextBase62 ==
    /\ DoBase62Conversion
    /\ UNCHANGED <<ccVars, ccHist, logVars, ecVars, ecHist, callerVars,
                   failVars, svcVars>>

SpecBase62 == InitCacheOnly /\ [][NextBase62]_vars

\* ------------------------------------------------------------------------
\* Two counters and their short codes
\* ------------------------------------------------------------------------
\* counter values a fresh allocator hands out, all far below 62^6: the
\* first ones and some after a few hundred thousand allocations
PairIds ==
    { FromNat(1), FromNat(2), FromNat(3), FromNat(10), FromNat(100),
      FromNat(22310), FromNat(111172), FromNat(111173), FromNat(155017),
      FromNat(155018), FromNat(277261), FromNat(1000000) }

\* code1 := GenerateShortCodeForID(c1); code2 := GenerateShortCodeForID(c2)
GeneratePair(c1, c2) ==
    /\ genIn' = c1
    /\ genOut' = encodeCounter(c1)
    /\ genOther' = [id |-> c2, code |-> encodeCounter(c2)]
    /\ genN' = genN + 1
    /\ UNCHANGED <<genDec, genMid>>

DoGeneratePair ==
    /\ genN = 0
    /\ \E c1 \in PairIds, c2 \in PairIds : GeneratePair(c1, c2)

NextPair ==
    /\ DoGeneratePair
    /\ UNCHANGED <<ccVars, ccHist, logVars, ecVars, ecHist, callerVars,
                   failVars, svcVars>>

SpecPair == InitCacheOnly /\ [][NextPair]_vars

\* ------------------------------------------------------------------------
\* obfuscateValue with the word that enters its last step
\* ------------------------------------------------------------------------
\* the lower and the upper 32 bits of a word
LowerHalf(w) == SubSeq(w, 1, 4)
UpperHalf(w) == SubSeq(w, 5, WordBytes)

\* result after steps 1 to 4 of obfuscateValue
BeforeStep5(value) == ObfStep4(ObfStep3(ObfStep2(ObfStep1(value))))

\* obfuscateValue(value)
Obfuscate(value) ==
    /\ genIn' = value
    /\ genMid' = BeforeStep5(value)
    /\ genOut' = obfuscateValue(value)
    /\ genN' = genN + 1
    /\ UNCHANGED <<genDec, genOther>>

\* a run of calls with consecutive values
DoObfuscate ==
    /\ genN < MaxCodes
    /\ \E value \in (IF genN = 0 THEN StartIds ELSE {AddW(genIn, One)}) :
            Obfuscate(value)

NextObf ==
    /\ DoObfuscate
    /\ UNCHANGED <<ccVars, ccHist, logVars, ecVars, ecHist, callerVars,
                   failVars, svcVars>>

SpecObf == InitCacheOnly /\ [][NextObf]_vars

\* ------------------------------------------------------------------------
\* Two values and their obfuscated words
\* ------------------------------------------------------------------------
\* obfuscated[i] = generator.obfuscateValue(val) for two values
ObfuscatePair(v1, v2) ==
    /\ genIn' = v1
    /\ genMid' = BeforeStep5(v1)
    /\ genOut' = obfuscateValue(v1)
    /\ genOther' = [id |-> v2, code |-> obfuscateValue(v2)]
    /\ genN' = genN + 1
    /\ UNCHANGED genDec

DoObfuscatePair ==
    /\ genN = 0
    /\ \E v1 \in PairIds, v2 \in PairIds : ObfuscatePair(v1, v2)

NextObfPair ==
    /\ DoObfuscatePair
    /\ UNCHANGED <<ccVars, ccHist, logVars, ecVars, ecHist, callerVars,
                   failVars, svcVars>>

SpecObfPair == InitCacheOnly /\ [][NextObfPair]_vars

\* ------------------------------------------------------------------------
\* CounterCache with a durable store whose reads and writes may fail
\* ------------------------------------------------------------------------
\* errors returned to callers that are explored in one run
MaxFailures == 2

\* variant: an entry is stored although the read of the store failed
CountersAfterReadError_Stored(k) == StoreEntry(k, LoadEntry(0))

\* GetNextCounter, first use of a key, c.db.GetCounter returns an error
\* other than sql.ErrNoRows: return 0, err before any entry is built
CountersAfterReadError(k) == counters

GetNextCounterFail(k) ==
    /\ k \notin DOMAIN counters
    /\ counters' = CountersAfterReadError(k)
    /\ errLog' = Append(errLog, [op |-> "GetNextCounter", key |-> k])
    /\ lastAct' = "GetNextCounterFail"
    /\ UNCHANGED <<lastArg, lastPre, lastRet>>
    /\ UNCHANGED <<jumpAhead, db, goroutines, writebackCh, stopCh, worker,
                   sync, closePc>>
    /\ UNCHANGED ccHist
    /\ UNCHANGED <<synced, atClose>>

\* writebackWorker: c.db.SetCounter of the request it holds returns an
\* error; req.resp is nil for asyncWriteback requests, the error is lost
WorkerWriteFail ==
    /\ worker.req # NoReq
    /\ worker' = [worker EXCEPT !.req = NoReq]
    /\ lastAct' = "WorkerWriteFail"
    /\ UNCHANGED <<lastArg, lastPre, lastRet>>
    /\ UNCHANGED <<jumpAhead, counters, db, goroutines, writebackCh, stopCh,
                   sync, closePc>>
    /\ UNCHANGED ccHist
    /\ UNCHANGED <<errLog, synced, atClose>>

\* variant: the entry is marked clean although its write failed
AfterFailedWrite_Cleaned(e) == [e EXCEPT !.dirty = FALSE]

\* Sync: c.db.SetCounter returns an error; the entry is not touched
AfterFailedWrite(e) == e

\* Sync: the write of key k fails, Sync returns the error at once; the
\* Sync inside Close makes Close return it
SyncWriteFail(s, k) ==
    /\ sync[s].pc = "write"
    /\ k \in DOMAIN sync[s].snap
    /\ counters' = IF k \in DOMAIN counters
                   THEN [counters EXCEPT ![k] = AfterFailedWrite(@)]
                   ELSE counters
    /\ sync' = [sync EXCEPT ![s] = IdleSync]
    /\ closePc' = IF s = "close" THEN "done" ELSE closePc
    /\ quiet' = "none"
    /\ errLog' = Append(errLog, [op |-> IF s = "close" THEN "Close"
                                        ELSE "Sync", key |-> k])
    /\ lastAct' = "SyncWriteFail"
    /\ UNCHANGED <<lastArg, lastPre, lastRet>>
    /\ UNCHANGED <<jumpAhead, db, goroutines, writebackCh, stopCh, worker>>
    /\ UNCHANGED <<issued, base, prevMax, setValue, setEver, restarts>>
    /\ UNCHANGED <<synced, atClose>>

\* the operations of the CounterCache, with the history of this section
FailGetNextCounter(K, max) ==
    /\ DoGetNextCounter(K, max)
    /\ lastAct' = "GetNextCounter"
    /\ UNCHANGED <<lastArg, lastPre, lastRet>>
    /\ UNCHANGED <<errLog, synced, atClose>>

FailGetNextCounterFail(K) ==
    /\ Len(errLog) < MaxFailures
    /\ \E k \in K : GetNextCounterFail(k)

FailAsyncSend ==
    /\ DoAsyncSend
    /\ lastAct' = "AsyncSend"
    /\ UNCHANGED <<lastArg, lastPre, lastRet>>
    /\ UNCHANGED <<errLog, synced, atClose>>

FailAsyncStopped ==
    /\ DoAsyncStopped
    /\ lastAct' = "AsyncStopped"
    /\ UNCHANGED <<lastArg, lastPre, lastRet>>
    /\ UNCHANGED <<errLog, synced, atClose>>

FailAsyncDrop ==
    /\ DoAsyncDrop
    /\ lastAct' = "AsyncDrop"
    /\ UNCHANGED <<lastArg, lastPre, lastRet>>
    /\ UNCHANGED <<errLog, synced, atClose>>

\* requests leave the queue in the order they entered it
FailWorkerReceive ==
    /\ WorkerReceive
    /\ atClose' = [atClose EXCEPT !.left = IF @ > 0 THEN @ - 1 ELSE 0]
    /\ lastAct' = "WorkerReceive"
    /\ UNCHANGED <<lastArg, lastPre, lastRet>>
    /\ UNCHANGED <<errLog, synced>>

FailWorkerWrite ==
    /\ WorkerWrite
    /\ lastAct' = "WorkerWrite"
    /\ UNCHANGED <<lastArg, lastPre, lastRet>>
    /\ UNCHANGED <<errLog, synced, atClose>>

FailWorkerStop ==
    /\ WorkerStop
    /\ lastAct' = "WorkerStop"
    /\ UNCHANGED <<lastArg, lastPre, lastRet>>
    /\ UNCHANGED <<errLog, synced, atClose>>

FailWorkerExit ==
    /\ WorkerExit
    /\ lastAct' = "WorkerExit"
    /\ UNCHANGED <<lastArg, lastPre, lastRet>>
    /\ UNCHANGED <<errLog, synced, atClose>>

FailSyncBegin ==
    /\ SyncBegin
    /\ synced' = [synced EXCEPT !["client"] = NoneSynced]
    /\ lastAct' = "SyncBegin"
    /\ UNCHANGED <<lastArg, lastPre, lastRet>>
    /\ UNCHANGED <<errLog, atClose>>

FailSyncWrite ==
    /\ DoSyncWrite
    /\ lastAct' = "SyncWrite"
    /\ UNCHANGED <<lastArg, lastPre, lastRet>>
    /\ UNCHANGED <<errLog, synced, atClose>>

FailSyncWriteFail ==
    /\ Len(errLog) < MaxFailures
    /\ \E s \in Syncers, k \in Keys : SyncWriteFail(s, k)

FailSyncMark ==
    \E s \in Syncers :
        /\ SyncMark(s)
        /\ synced' = [t \in Syncers |->
                        IF sync[s].key \notin DOMAIN counters THEN synced[t]
                        ELSE IF t = s
                        THEN [synced[t] EXCEPT
                                !.own = MapPut(@, sync[s].key,
                                               counters[sync[s].key].allocated)]
                        ELSE IF sync[t].pc # "idle"
                        THEN [synced[t] EXCEPT !.other = @ \cup {sync[s].key}]
                        ELSE synced[t]]
        /\ lastAct' = "SyncMark"
        /\ UNCHANGED <<lastArg, lastPre, lastRet>>
        /\ UNCHANGED <<errLog, atClose>>

FailCloseBegin ==
    /\ CloseBegin
    /\ atClose' = [queued |-> Len(writebackCh), left |-> Len(writebackCh),
                    issued |-> [k \in Keys |-> Len(issued[k])]]
    /\ lastAct' = "CloseBegin"
    /\ UNCHANGED <<lastArg, lastPre, lastRet>>
    /\ UNCHANGED <<errLog, synced>>

FailCloseSync ==
    /\ CloseSync
    /\ synced' = [synced EXCEPT !["close"] = NoneSynced]
    /\ lastAct' = "CloseSync"
    /\ UNCHANGED <<lastArg, lastPre, lastRet>>
    /\ UNCHANGED <<errLog, atClose>>

\* one instance on one key: allocation, write-back, Sync and Close, with
\* store operations that may fail
NextFail ==
    /\ \/ FailGetNextCounter({ScenarioKey}, MaxVal)
       \/ FailGetNextCounterFail({ScenarioKey})
       \/ FailAsyncSend
       \/ FailAsyncStopped
       \/ FailAsyncDrop
       \/ FailWorkerReceive
       \/ FailWorkerWrite
       \/ WorkerWriteFail
       \/ FailWorkerStop
       \/ FailWorkerExit
       \/ FailSyncBegin
       \/ FailSyncWrite
       \/ FailSyncWriteFail
       \/ FailSyncMark
       \/ FailCloseBegin
       \/ FailCloseSync
    /\ UNCHANGED <<logVars, ecVars, ecHist, callerVars, genVars, svcVars>>

SpecFail == InitCacheOnly /\ [][NextFail]_vars

\* largest ceiling a counter may reach in the exploration of several keys
\* on a failing store
MaxFailVal == 1

\* the same on several keys, each used once
NextFailKeys ==
    /\ \/ FailGetNextCounter(Keys, MaxFailVal)
       \/ FailGetNextCounterFail(Keys)
       \/ FailAsyncSend
       \/ FailAsyncStopped
       \/ FailAsyncDrop
       \/ FailWorkerReceive
       \/ FailWorkerWrite
       \/ WorkerWriteFail
       \/ FailWorkerStop
       \/ FailWorkerExit
       \/ FailSyncBegin
       \/ FailSyncWrite
       \/ FailSyncWriteFail
       \/ FailSyncMark
       \/ FailCloseBegin
       \/ FailCloseSync
    /\ UNCHANGED <<logVars, ecVars, ecHist, callerVars, genVars, svcVars>>

SpecFailKeys == InitCacheOnly /\ [][NextFailKeys]_vars

\* ------------------------------------------------------------------------
\* Properties
\* ------------------------------------------------------------------------
\* the first value a fresh CounterCache on the present store returns for k
FirstValueOfNewInstance(k) ==
    Increment(IF NeedsAllocation(LoadEntry(DbGetCounter(k)))
              THEN Allocate(LoadEntry(DbGetCounter(k)))
              ELSE LoadEntry(DbGetCounter(k))).current

\* C1: the values GetNextCounter returned for a key that was loaded from the
\* store and not overridden are exactly h+1, h+2, ... in issue order, h being
\* the value read from the store (0 when absent): pairwise distinct,
\* contiguous, continuing from the prior high-water mark.
C1_ContiguousRun ==
    \A k \in DOMAIN counters \ DOMAIN setValue :
        /\ issued[k] = [i \in 1..Len(issued[k]) |-> base[k] + i]
        /\ counters[k].current = base[k] + Len(issued[k])

\* C1 witness: a run of at least two values that continues from a non-zero
\* stored ceiling in an instance built after a restart
C1_Witness ==
    \E k \in DOMAIN counters \ DOMAIN setValue :
        restarts >= 1 /\ base[k] >= 1 /\ Len(issued[k]) >= 2

\* C2: after a crash a fresh instance never returns a value that an earlier
\* instance already returned for the key (no SetCounter involved).
C2_NoReissueAfterCrash ==
    ~setEver =>
        \A k \in Keys : \A i \in 1..Len(issued[k]) : issued[k][i] > prevMax[k]

\* C3: once Sync and then Close have returned with no allocation in between
\* or during them, the store holds every key's ceiling and a fresh instance
\* would start above every value issued.
C3_SyncCloseLeavesCeilingDurable ==
    (quiet = "closed" /\ ~setEver) =>
        \A k \in DOMAIN counters :
            /\ k \in DOMAIN db
            /\ db[k] = counters[k].allocated
            /\ FirstValueOfNewInstance(k) > SeqMax(issued[k])

\* the persist requests of the scenario after n calls: the first call asks
\* for the first ceiling, every call that crosses a ceiling for the next one
ScenarioRequests(n) ==
    [i \in 1..(IF n = 0 THEN 0 ELSE ((n - 1) \div ScenarioStep) + 1) |->
        Req(ScenarioKey, i * ScenarioStep)]

\* C4 (original): when the eleventh call has returned, exactly one durable
\* write has been issued for the key, and it carries the value 20.
C4_OneWriteOfTwenty ==
    Len(issued[ScenarioKey]) = 11 =>
        /\ reqLog = <<Req(ScenarioKey, 20)>>
        /\ writeLog = <<Req(ScenarioKey, 20)>>

\* C4 (amended): the calls return 1, 2, 3, ...; the first call issues a
\* persist request for the ceiling 10 and the eleventh one for the ceiling
\* 20, nothing else is requested; the worker writes each request at most
\* once, at any later time and in either order, so the store holds
\* nothing, 10 or 20.
C4_ScenarioRequests ==
    /\ issued[ScenarioKey] = [i \in 1..Len(issued[ScenarioKey]) |-> i]
    /\ reqLog = ScenarioRequests(Len(issued[ScenarioKey]))
    /\ \A i \in 1..Len(writeLog) : \E j \in 1..Len(reqLog) :
            writeLog[i] = reqLog[j]
    /\ \A i, j \in 1..Len(writeLog) : i # j => writeLog[i] # writeLog[j]
    /\ ScenarioKey \in DOMAIN db =>
            db[ScenarioKey] = writeLog[Len(writeLog)].value

\* C4 witness: eleven calls made, the last returned 11, both requests issued
\* and the second ceiling written
C4_Witness ==
    /\ Len(issued[ScenarioKey]) = 11
    /\ issued[ScenarioKey][11] = 11
    /\ Len(reqLog) = 2
    /\ ScenarioKey \in DOMAIN db
    /\ db[ScenarioKey] = 20

\* C5: the last issued value never exceeds the in-memory ceiling.
C5_CurrentWithinCeiling ==
    \A k \in DOMAIN counters : counters[k].current <= counters[k].allocated

\* C5 witness: an overridden key that was allocated up to its ceiling and
\* then synced
C5_Witness ==
    \E k \in DOMAIN counters \cap DOMAIN setValue :
        /\ issued[k] # <<>>
        /\ counters[k].current = counters[k].allocated
        /\ ~counters[k].dirty

\* a step that is a SetCounter call on key k
IsSetCounter(k) == \E v \in SetValues : SetCounter(k, v)

\* C6 (original): no step makes the ceiling of a key smaller.
C6_CeilingNeverDecreases ==
    [][\A k \in DOMAIN counters \cap DOMAIN counters' :
            counters'[k].allocated >= counters[k].allocated]_vars

\* C6 (amended): the ceiling of a key is non-decreasing across every step
\* of the instance other than a SetCounter call on that key, which replaces
\* it by value + step.
C6_CeilingMonotoneExceptSetCounter ==
    [][\A k \in DOMAIN counters \cap DOMAIN counters' :
            \/ counters'[k].allocated >= counters[k].allocated
            \/ IsSetCounter(k)]_vars

\* C6 witness: a ceiling that was raised by a jump-ahead and then synced
C6_Witness ==
    \E k \in DOMAIN counters \ DOMAIN setValue :
        /\ counters[k].allocated > base[k] + jumpAhead
        /\ ~counters[k].dirty

\* C7: SetCounter(key, v) installs current = v, allocated = v + step,
\* dirty = true without touching the store, and the next value
\* GetNextCounter returns for the key is v + 1.
C7_SetCounterThenNext ==
    /\ [][\A k \in Keys, v \in SetValues :
            SetCounter(k, v) =>
                /\ counters'[k] = [current |-> v, allocated |-> v + jumpAhead,
                                   dirty |-> TRUE]
                /\ db' = db]_vars
    /\ [](\A k \in DOMAIN setValue :
            /\ issued[k] = <<>> => counters[k].current = setValue[k]
            /\ issued[k] # <<>> => issued[k][1] = setValue[k] + 1)

\* C7 witness: a value issued after an override whose ceiling is not what
\* the store holds for the key
C7_Witness ==
    \E k \in DOMAIN setValue :
        /\ issued[k] # <<>>
        /\ k \in DOMAIN db
        /\ db[k] # setValue[k] + jumpAhead

\* the pending persist requests for key k
RequestsFor(bag, k) == {g \in BagToSet(bag) : g.key = k}

\* C8: a GetNextCounter or SetCounter on one key leaves the entry of every
\* other key as it is and starts no persist request for it; on the empty
\* store every key's own sequence starts at 1.
C8_KeysIndependent ==
    /\ [][\A k1 \in Keys :
            (GetNextCounter(k1) \/ IsSetCounter(k1)) =>
                \A k2 \in Keys \ {k1} :
                    /\ k2 \in DOMAIN counters' <=> k2 \in DOMAIN counters
                    /\ k2 \in DOMAIN counters => counters'[k2] = counters[k2]
                    /\ \A g \in RequestsFor(goroutines, k2)
                                \cup RequestsFor(goroutines', k2) :
                            CopiesIn(g, goroutines') = CopiesIn(g, goroutines)
                    /\ db' = db]_vars
    /\ [](\A k \in DOMAIN counters \ DOMAIN setValue :
            issued[k] # <<>> => issued[k][1] = 1)

\* C8 witness: two keys interleaved as in the test, each counting from 1
C8_Witness ==
    /\ issued["k"] = <<1, 2>>
    /\ issued["j"] = <<1>>
    /\ DOMAIN setValue = {}

\* C9: once the loops have ended after StopBackgroundSync with syncFunc
\* never failing, an entry that was updated is clean only if its present
\* usage count and timestamp were handed to syncFunc.
C9_NoLostUpdate ==
    (/\ loops # <<>>
     /\ ~running
     /\ ~syncFailed
     /\ \A i \in LoopIds : loops[i].pc = "done" /\ i \in stopped) =>
        \A c \in DOMAIN data \cap updated :
            ~data[c].Dirty =>
                <<c, data[c].UsageCount, data[c].LastUsedAt>> \in delivered

\* C10: a loop that was running when StopBackgroundSync was called
\* eventually makes its final sync pass and ends (unless its context ends
\* it first); StopBackgroundSync when not running changes nothing.
C10_StopLeadsToFinalPassAndExit ==
    /\ \A i \in 1..MaxLoops :
            (i \in stopped /\ ~ctxDone) ~>
                (ctxDone \/ (/\ i \in LoopIds
                              /\ loops[i].pc = "done"
                              /\ loops[i].didFinal))
    /\ [][(StopBackgroundSync /\ ~running) => UNCHANGED <<ecVars, ecHist>>]_vars
\* C11: a loop that leaves through the cancellation of its context while
\* dirty entries exist has made a final sync pass over them before it ends.
C11_CancelLeadsToFinalFlush ==
    [][\A i \in LoopIds :
            (LoopCtxDone(i) /\ DOMAIN GetDirtyEntries # {}) =>
                loops'[i].didFinal]_vars
\* the codes whose entry is dirty after the step
DirtyAfter == {c \in DOMAIN data' : data'[c].Dirty}

\* C12 (original): after LoadData(m) no entry is dirty, whatever the Dirty
\* flags of m.
C12_LoadedStartClean ==
    [][\A m \in LoadMaps : LoadData(m) => DirtyAfter = {}]_vars

\* C12 (amended): LoadData(m) stores every entry with the Dirty flag it has
\* in m, so afterwards the dirty entries are exactly those of m whose flag
\* is set; they are none when m holds clean entries only.
C12_LoadedKeepDirtyFlag ==
    [][\A m \in LoadMaps :
            LoadData(m) =>
                /\ DirtyAfter = {c \in DOMAIN m : m[c].Dirty}
                /\ \A c \in DOMAIN m : data'[c].Dirty = m[c].Dirty]_vars

\* C12 witness: an entry that only LoadData can have stored, dirty from the
\* start
C12_Witness ==
    \E c \in DOMAIN data :
        /\ data[c].OriginalURL = "u2"
        /\ data[c].UsageCount = 0
        /\ data[c].Dirty

\* C13: after LoadData(m) Get finds exactly the codes of m, each with the
\* OriginalURL and UsageCount it has in m.
C13_LoadDataReplacesAll ==
    [][\A m \in LoadMaps :
            LoadData(m) =>
                /\ \A c \in Codes : Get(c)'[2] <=> c \in DOMAIN m
                /\ \A c \in DOMAIN m :
                        /\ Get(c)'[1].OriginalURL = m[c].OriginalURL
                        /\ Get(c)'[1].UsageCount = m[c].UsageCount]_vars

\* C13 witness: a loaded cache that holds one loaded entry and nothing else
C13_Witness ==
    /\ DOMAIN data = {"xyz"}
    /\ data["xyz"].OriginalURL = "u2"
    /\ data["xyz"].UsageCount = 1
    /\ ~data["xyz"].Dirty
\* C14: a dirty entry, with the background sync running and syncFunc
\* succeeding, is eventually handed to syncFunc in a batch and is clean after
\* that pass (unless the sync is stopped or its context ends first).
C14_DirtyEventuallySynced ==
    \A c \in Codes :
        (c \in DOMAIN data /\ data[c].Dirty /\ running /\ ~ctxDone) ~>
            \/ /\ c \in DOMAIN data
               /\ ~data[c].Dirty
               /\ \E d \in delivered : d[1] = c
            \/ ~running
            \/ ctxDone

\* C14 witness: the sync still running, the entry used, handed to syncFunc
\* and clean
C14_Witness ==
    /\ running
    /\ ~ctxDone
    /\ ScenarioCode \in DOMAIN data \cap updated
    /\ ~data[ScenarioCode].Dirty
    /\ \E d \in delivered : d[1] = ScenarioCode
\* C15: when syncFunc returns an error the pass ends there: the cache is
\* left as it is and no entry of the batch is marked clean; every tick hands
\* all entries that are dirty at that time to syncFunc, so the entries of
\* the failed batch that are still dirty are handed over again.
C15_FailedBatchStaysDirty ==
    /\ [][\A i \in LoopIds :
            LoopSyncFail(i) =>
                /\ data' = data
                /\ loops'[i].pc \in {"select", "done"}
                /\ loops'[i].todo = {}
                /\ \A c \in DOMAIN loops[i].batch \cap DOMAIN data :
                        data[c].Dirty => c \in DirtyAfter]_vars
    /\ [][\A i \in LoopIds :
            (LoopTick(i) /\ DOMAIN GetDirtyEntries # {}) =>
                /\ loops'[i].pc = "call"
                /\ loops'[i].batch = GetDirtyEntries]_vars

\* C15 witness: after a failed syncFunc call a tick has handed the dirty
\* entry to syncFunc again
C15_Witness ==
    /\ syncFailed
    /\ \E i \in LoopIds :
            /\ loops[i].pc = "call"
            /\ ~loops[i].final
            /\ ScenarioCode \in DOMAIN loops[i].batch
    /\ ScenarioCode \in DOMAIN data
    /\ data[ScenarioCode].Dirty
    /\ ~(\E d \in delivered : d[1] = ScenarioCode)

\* C16: StartBackgroundSync while running changes nothing; a goroutine is
\* only ever started by a call made while not running.
C16_StartWhileRunningIsNoOp ==
    /\ [][(running /\ StartBackgroundSync) => UNCHANGED <<ecVars, ecHist>>]_vars
    /\ [][Len(loops') > Len(loops) => ~running /\ running']_vars

\* C16 witness: the loop is inside a syncFunc call while the sync is
\* running, the state in which a second StartBackgroundSync returns at once
C16_Witness ==
    /\ running
    /\ Len(loops) = 1
    /\ loops[1].pc = "call"
C18_IncrementUsageCounts ==
    /\ [][\A c \in DOMAIN data, t \in 0..MaxTime :
            CallIncrementUsage(c, t) =>
                /\ data'[c].UsageCount = data[c].UsageCount + 1
                /\ data'[c].Dirty
                /\ data'[c].OriginalURL = data[c].OriginalURL
                /\ DOMAIN data' = DOMAIN data
                /\ \A c2 \in DOMAIN data \ {c} : data'[c2] = data[c2]]_vars
    /\ [](\A c \in DOMAIN data : data[c].UsageCount = Calls(c))

\* C18 witness: two calls counted on one code while another code is present
C18_Witness ==
    \E c \in DOMAIN data :
        /\ Calls(c) = 2
        /\ data[c].UsageCount = 2
        /\ DOMAIN data \ {c} # {}

\* C19: IncrementUsage on a code that is not in the cache leaves the map,
\* and with it the set of dirty entries, as it is.
C19_IncrementAbsentIsNoOp ==
    [][\A c \in Codes \ DOMAIN data, t \in 0..MaxTime :
            CallIncrementUsage(c, t) =>
                /\ data' = data
                /\ DirtyAfter = DOMAIN GetDirtyEntries]_vars

\* C19 witness: IncrementUsage was called for a code that is not in the
\* cache while another code is
C19_Witness ==
    \E c \in Codes \ DOMAIN data :
        /\ Calls(c) >= 1
        /\ DOMAIN data # {}
\* C20: every short code has exactly 7 characters of the alphabet; the
\* value that is converted, (obfuscated mod rangeSize) + minVal, lies in
\* [62^6, 62^7 - 1] and the addition does not overflow 64 bits.
C20_SevenCharacters ==
    genN > 0 =>
        /\ Len(genOut) = 7
        /\ \A i \in 1..Len(genOut) :
                \E j \in 1..Len(base62Chars) : genOut[i] = base62Chars[j]
        /\ LET reduced == ModW(obfuscateValue(genIn), rangeSize)
           IN  /\ Sum(reduced, minVal)[WordBytes + 1] = 0
               /\ GeW(finalValue(obfuscateValue(genIn)), minVal)
               /\ GeW(maxVal, finalValue(obfuscateValue(genIn)))
               /\ genOut = toBase62(AddW(reduced, minVal))

\* C20 witness: the code of the largest 64-bit counter value
C20_Witness ==
    /\ genN > 0
    /\ genIn = NotW(Zero)
    /\ Len(genOut) = 7

\* C21: the generic base-62 primitive round-trips, fromBase62(toBase62(x))
\* = x; toBase62(x) uses only the alphabet, has no leading zero digit and
\* ends with the digit of x % 62 (most significant digit first).
C21_Base62RoundTrip ==
    genN > 0 =>
        /\ genDec = genIn
        /\ Len(genOut) >= 1
        /\ \A i \in 1..Len(genOut) :
                \E j \in 1..Len(base62Chars) : genOut[i] = base62Chars[j]
        /\ Len(genOut) > 1 => genOut[1] # "0"
        /\ genOut[Len(genOut)] = base62Chars[DivModSmall(genIn, 62)[2] + 1]

\* C21 witness: 2^64 - 1 is written with 11 digits and read back
C21_Witness ==
    /\ genN > 0
    /\ genIn = NotW(Zero)
    /\ Len(genOut) = 11
    /\ genDec = NotW(Zero)

\* C22: two different counter values below 62^6 never get the same short
\* code.
C22_DistinctCodes ==
    (/\ genN > 0
     /\ genOther # <<>>
     /\ genIn # genOther.id
     /\ ~GeW(genIn, minVal)
     /\ ~GeW(genOther.id, minVal))
        => genOut # genOther.code

\* the call whose error was logged last
LastErr == errLog[Len(errLog)]
\* GetNextCounter(k) has returned a read error before
ReadFailedBefore(k) ==
    \E i \in 1..Len(errLog) : errLog[i] = [op |-> "GetNextCounter", key |-> k]

\* C23: a GetNextCounter whose first read of the store fails returns an
\* error and no value, creates no entry for the key, starts no persist
\* request and leaves every key, the queue and the store unchanged; the
\* next GetNextCounter for the key reads the store again.
C23_ReadFailureLeavesNoState ==
    [][/\ lastAct' = "GetNextCounterFail" =>
            /\ Len(errLog') = Len(errLog) + 1
            /\ LastErr'.op = "GetNextCounter"
            /\ LastErr'.key \notin DOMAIN counters'
            /\ counters' = counters
            /\ issued' = issued
            /\ goroutines' = goroutines
            /\ writebackCh' = writebackCh
            /\ db' = db
       /\ \A k \in Keys :
            (/\ lastAct' = "GetNextCounter"
             /\ issued'[k] # issued[k]
             /\ ReadFailedBefore(k)
             /\ k \notin DOMAIN counters) =>
                /\ base'[k] = DbGetCounter(k)
                /\ issued'[k] = <<DbGetCounter(k) + 1>>
                /\ counters'[k].allocated = DbGetCounter(k) + jumpAhead
      ]_vars

\* C23 witness: the read for "k" failed while "j" was loaded, and a later
\* call for "k" succeeded
C23_Witness ==
    /\ ReadFailedBefore("k")
    /\ lastAct = "GetNextCounter"
    /\ issued["k"] = <<1>>
    /\ issued["j"] = <<1>>

\* the Sync call that returned the error logged last
FailedSyncer == IF LastErr.op = "Close" THEN "close" ELSE "client"

C25_CloseOrder ==
    /\ [](/\ closePc # "idle" => stopCh
          /\ worker.pc = "done" =>
                /\ stopCh
                /\ atClose.left = 0
                /\ worker.req = NoReq
          /\ closePc \in {"sync", "done"} => worker.pc = "done"
          /\ sync["close"].pc # "idle" => worker.pc = "done")
    /\ [][lastAct' \in {"WorkerWrite", "WorkerWriteFail"} =>
            /\ closePc' \in {"idle", "wait"}
            /\ sync'["close"] = IdleSync
            /\ synced'["close"] = NoneSynced
      ]_vars

\* C25 witness: Close found a request in the queue, the worker wrote it in
\* its drain loop and exited, and the final Sync has written the ceiling
C25_Witness ==
    /\ closePc = "done"
    /\ atClose.queued > 0
    /\ worker.pc = "done"
    /\ errLog = <<>>
    /\ synced["close"].own # EmptyMap

\* a persist request for the present ceiling of k is pending, queued or in
\* the worker's hands
PersistPending(k) ==
    \/ BagIn(Req(k, counters[k].allocated), goroutines)
    \/ \E i \in 1..Len(writebackCh) :
            writebackCh[i] = Req(k, counters[k].allocated)
    \/ worker.req = Req(k, counters[k].allocated)

\* C26: a key whose durable value differs from its ceiling while no
\* persist request for that ceiling is pending is dirty, and after Close
\* has returned nil, with no value issued since Close was called, the
\* durable value of every key equals its ceiling.
C26_DroppedPersistIsRepaired ==
    /\ \A k \in DOMAIN counters :
            (DbGetCounter(k) # counters[k].allocated /\ ~PersistPending(k))
                => counters[k].dirty
    /\ (/\ closePc = "done"
        /\ \A i \in 1..Len(errLog) : errLog[i].op # "Close"
        /\ \A k \in Keys : Len(issued[k]) = atClose.issued[k])
            => \A k \in DOMAIN counters :
                    DbGetCounter(k) = counters[k].allocated

\* C27: GetNextCounter does not wait for persistence: the call returns the
\* next value without touching the queue, the worker or the store whatever
\* their state, every asyncWriteback goroutine can always finish, and a
\* request that finds the queue full is dropped with the queue unchanged.
C27_GetNextNeverBlocks ==
    /\ [](\A g \in BagToSet(goroutines) :
            ENABLED (AsyncSend(g) \/ AsyncStopped(g) \/ AsyncDrop(g)))
    /\ [][/\ lastAct' = "GetNextCounter" =>
            /\ writebackCh' = writebackCh
            /\ worker' = worker
            /\ db' = db
            /\ \E k \in Keys :
                /\ Len(issued'[k]) = Len(issued[k]) + 1
                /\ issued[k] # <<>> =>
                        issued'[k][Len(issued'[k])]
                            = issued[k][Len(issued[k])] + 1
       /\ lastAct' = "AsyncDrop" =>
            /\ Len(writebackCh) = QueueCap
            /\ writebackCh' = writebackCh
            /\ counters' = counters
            /\ issued' = issued
            /\ db' = db
            /\ BagCardinality(goroutines') = BagCardinality(goroutines) - 1
      ]_vars

\* C27 witness: the queue is full and the worker has not taken anything
\* from it; a second value was issued and its request dropped
C27_Witness ==
    /\ lastAct = "AsyncDrop"
    /\ Len(writebackCh) = QueueCap
    /\ worker = [pc |-> "run", req |-> NoReq]
    /\ db = EmptyMap
    /\ issued["k"] = <<1, 2>>
    /\ goroutines = EmptyBag

\* C28: Delete(k) returns nil whether or not k is present; afterwards
\* Get(k) reports not found, k is not in GetDirtyEntries even if it was
\* dirty, and the entry of every other code is unchanged.
C28_DeleteRemoves ==
    [][\A k \in Codes :
        (lastAct' = "Delete" /\ lastArg' = k) =>
            /\ lastRet' = "nil"
            /\ lastPre' = Get(k)
            /\ Get(k)'[2] = FALSE
            /\ k \notin DOMAIN GetDirtyEntries'
            /\ \A c \in Codes \ {k} :
                    /\ Get(c)' = Get(c)
                    /\ (c \in DOMAIN GetDirtyEntries')
                            = (c \in DOMAIN GetDirtyEntries)
      ]_vars

\* C28 witness: a dirty entry was deleted while another dirty entry stays
C28_Witness ==
    /\ lastAct = "Delete"
    /\ lastArg = "abc"
    /\ lastPre[2]
    /\ lastPre[1].Dirty
    /\ "abc" \notin DOMAIN data
    /\ "xyz" \in DOMAIN GetDirtyEntries

\* C29: GetDirtyEntries returns, with a nil error, exactly the entries
\* whose Dirty flag is set at the time of the call, each with the field
\* values it has then, and changes nothing in the cache; MarkClean(k)
\* clears the flag of k only, so the result no longer contains k.
C29_DirtyEntriesExact ==
    [][/\ lastAct' = "GetDirtyEntries" =>
            /\ lastRet'[2] = "nil"
            /\ DOMAIN lastRet'[1] = {c \in DOMAIN data : data[c].Dirty}
            /\ \A c \in DOMAIN lastRet'[1] : lastRet'[1][c] = data[c]
            /\ data' = data
       /\ \A k \in Codes :
            (lastAct' = "MarkClean" /\ lastArg' = k) =>
                /\ lastRet' = "nil"
                /\ k \notin DOMAIN GetDirtyEntries'
                /\ DOMAIN data' = DOMAIN data
                /\ k \in DOMAIN data =>
                        data'[k] = [data[k] EXCEPT !.Dirty = FALSE]
                /\ \A c \in DOMAIN data \ {k} : data'[c] = data[c]
      ]_vars

\* C29 witness: with one dirty and one clean entry stored, GetDirtyEntries
\* returned the dirty one only
C29_Witness ==
    /\ lastAct = "GetDirtyEntries"
    /\ DOMAIN data = Codes
    /\ DOMAIN lastRet[1] = {"abc"}
    /\ lastRet[1]["abc"].UsageCount > 0
    /\ ~data["xyz"].Dirty

\* C30: step 5 of obfuscateValue leaves the upper 32 bits of the word where
\* they are and replaces the lower 32 bits by their bit reversal.
C30_Step5ReversesLowerInPlace ==
    genN > 0 =>
        /\ UpperHalf(genOut) = UpperHalf(genMid)
        /\ LowerHalf(genOut) = Reverse32(LowerHalf(genMid))

\* C31: obfuscateValue maps two different 64-bit values to two different
\* words.
C31_ObfuscationInjective ==
    (genN > 0 /\ genOther # <<>> /\ genIn # genOther.id)
        => genOut # genOther.code

\* C32: while a pass is inside syncFunc the loop holds no lock on the cache,
\* so Get, Set, Delete and IncrementUsage can take the mutex at once.
C32_SyncFuncOutsideLock ==
    \A i \in LoopIds :
        loops[i].pc = "call" => (i \notin mutex.readers /\ CanLock /\ CanRLock)

\* an IncrementUsage completed while syncFunc was working on a batch
C32_Witness ==
    /\ \E i \in LoopIds :
          /\ loops[i].pc = "call"
          /\ ScenarioCode \in DOMAIN loops[i].batch
          /\ ScenarioCode \in DOMAIN data
          /\ data[ScenarioCode].UsageCount
                > loops[i].batch[ScenarioCode].UsageCount
    /\ lastAct = "IncrementUsage"

C34_EveryUseCounted ==
    (\A p \in Callers : calls[p].pc = "idle")
        => \A c \in DOMAIN StoredRecords :
              GetURLInfo(c) = StoredRecords[c].UsageCount + Served(c)

\* C35: without SetCounter, no step lowers the value the durable store holds
\* for a key.
C35_StoreNeverDecreases ==
    [][\A k \in DOMAIN db : k \in DOMAIN db' /\ db'[k] >= db[k]]_vars

\* C36: while the running flag is set, some backgroundSync goroutine has
\* not returned.
C36_RunningMeansLoopAlive ==
    running => \E i \in LoopIds : loops[i].pc # "done"

\* C37: the syncFunc call of a final sync pass finds the repository open.
C37_FinalSyncBeforeRepoClose ==
    [][\A i \in LoopIds :
          (SvcSyncFunc(i) /\ loops[i].final) => ~repoClosed]_vars

\* C38: for every step the constructor takes, the values GetNextCounter
\* returns for a key are strictly increasing.
C38_IncreasingForEveryStep ==
    \A k \in Keys :
        \A n \in 1..(Len(issued[k]) - 1) : issued[k][n] < issued[k][n + 1]

\* C39: no Close call closes the stop channel a second time, so none panics.
C39_CloseTwiceSafe ==
    \A p \in Closers : closers[p] # "panic"
====
